---- MODULE Spec2Model ----
(***************************************************************************)
(* A model of the layout and variation pipeline of fontc:                  *)
(*   - layout-normalizer/src/gpos/marks.rs  (mark attachment rules)        *)
(*   - fontbe/src/features/marks.rs         (MarkLookupBuilder)            *)
(*   - fontbe/src/kern.rs                   (KerningWork)                  *)
(*   - src/grammar/feature.rs, gpos.rs      (feature file parser)          *)
(*   - glyphs-reader/src/font.rs            (source model)                 *)
(* Each component has its own variables and its own specification; the     *)
(* variables of the other components stay at their idle value.             *)
(***************************************************************************)
EXTENDS Integers, Sequences, FiniteSets, TLC

VARIABLES
    \* layout-normalizer: get_mark_base_rules / get_mark_mark_rules
    nKind,        \* which of the two functions runs: "MarkToBase" | "MarkToMark"
    nSubtables,   \* the subtables of the lookup read so far, in order
    nSeen,        \* seen: HashSet<(GlyphId, GlyphId)>
    nResult,      \* result: Vec<LookupRule>
    nPc,          \* "loop" | "done" (Ok(result)) | "err" (ReadError)
    \* fontbe marks: MarkLookupBuilder
    mOrder,       \* glyph_order: the glyph names, by glyph id
    mClasses,     \* gdef_classes: BTreeMap<GlyphName, GlyphClassDef>
    mAnchors,     \* anchors: Vec<&GlyphAnchors>, the input of new()
    mSolveFails,  \* glyphs whose anchors the variation solver cannot resolve
    mAnchorLists, \* anchor_lists: BTreeMap<GlyphName, Vec<&Anchor>> (pruned)
    mMarkGlyphs,  \* mark_glyphs: BTreeSet<GlyphName>
    mMarkBase,    \* FeaRsMarks::mark_base
    mMarkMark,    \* FeaRsMarks::mark_mark
    mPc,          \* "new" | "build" | "done" (Ok) | "err"
    \* fontbe kern: KerningWork::exec
    kIn,          \* glyph order and ir kerning (groups, kerns) read from the context
    kSt,          \* the locals of exec: glyph_classes, kerning, delta_indices, ..
    kOut,         \* context.kerning: the values set, in order
    \* feature file parser: grammar::feature
    pIn,          \* the token stream
    pSt,          \* the Parser: position, errors, open nodes, tree
    \* glyphs-reader: default_master_idx
    dIn,          \* the RawFont read: masters and custom parameters
    dSt,          \* the index returned
    \* glyphs-reader: v2_to_v3_axes and TryFrom<RawFont> for Font
    aIn,          \* the RawFont read: format version, axes, masters
    aSt,          \* the RawFont lifted, the Font or the error returned
    \* glyphs-reader: RawUserToDesignMapping::new
    uIn,          \* the RawFont read and its instances
    uSt,          \* the mapping under construction
    \* fontbe marks: FeaRsMarks::add_features
    fIn,          \* the FeaRsMarks and the language systems of the feature code
    fSt,          \* the FeatureBuilder: lookups added, features registered
    \* fontbe marks: MarkAttachmentBuilder::add_mark
    bIn,          \* a builder and the mark to add
    bSt,          \* the builder after the call and what the call reported
    \* glyphs-reader: the steps of v2_to_v3 and of the conversion of a RawFont
    zIn,          \* the part of the RawFont read that the step works on
    zSt           \* that part after the step

normVars == <<nKind, nSubtables, nSeen, nResult, nPc>>

marksVars == <<mOrder, mClasses, mAnchors, mSolveFails, mAnchorLists,
               mMarkGlyphs, mMarkBase, mMarkMark, mPc>>

kernVars == <<kIn, kSt, kOut>>

parserVars == <<pIn, pSt>>

masterVars == <<dIn, dSt>>

axesVars == <<aIn, aSt>>

mappingVars == <<uIn, uSt>>

featuresVars == <<fIn, fSt>>

builderVars == <<bIn, bSt>>

metricsVars == <<zIn, zSt>>

vars == <<normVars, marksVars, kernVars, parserVars, masterVars, axesVars, mappingVars,
          featuresVars, builderVars, metricsVars>>

\* the variables of the other components, which a component leaves alone
notNormVars ==
    <<marksVars, kernVars, parserVars, masterVars, axesVars,
      mappingVars, featuresVars, builderVars, metricsVars>>
notMarksVars ==
    <<normVars, kernVars, parserVars, masterVars, axesVars,
      mappingVars, featuresVars, builderVars, metricsVars>>
notKernVars ==
    <<normVars, marksVars, parserVars, masterVars, axesVars,
      mappingVars, featuresVars, builderVars, metricsVars>>
notParserVars ==
    <<normVars, marksVars, kernVars, masterVars, axesVars,
      mappingVars, featuresVars, builderVars, metricsVars>>
notMasterVars ==
    <<normVars, marksVars, kernVars, parserVars, axesVars,
      mappingVars, featuresVars, builderVars, metricsVars>>
notAxesVars ==
    <<normVars, marksVars, kernVars, parserVars, masterVars,
      mappingVars, featuresVars, builderVars, metricsVars>>
notMappingVars ==
    <<normVars, marksVars, kernVars, parserVars, masterVars,
      axesVars, featuresVars, builderVars, metricsVars>>
notFeaturesVars ==
    <<normVars, marksVars, kernVars, parserVars, masterVars,
      axesVars, mappingVars, builderVars, metricsVars>>
notBuilderVars ==
    <<normVars, marksVars, kernVars, parserVars, masterVars,
      axesVars, mappingVars, featuresVars, metricsVars>>
notMetricsVars ==
    <<normVars, marksVars, kernVars, parserVars, masterVars,
      axesVars, mappingVars, featuresVars, builderVars>>

(***************************************************************************)
(* Generic helpers                                                         *)
(***************************************************************************)
Idle == "idle"

Range(s) == {s[i] : i \in DOMAIN s}

(***************************************************************************)
(* Each specification runs one component; the variables of the others hold *)
(* their idle values throughout.                                           *)
(***************************************************************************)
IdleExcept(component) ==
    /\ IF component = "normalizer" THEN TRUE
       ELSE /\ nKind = Idle
            /\ nSubtables = <<>>
            /\ nSeen = {}
            /\ nResult = <<>>
            /\ nPc = Idle
    /\ IF component = "marks" THEN TRUE
       ELSE /\ mOrder = <<>>
            /\ mClasses = <<>>
            /\ mAnchors = <<>>
            /\ mSolveFails = {}
            /\ mAnchorLists = <<>>
            /\ mMarkGlyphs = {}
            /\ mMarkBase = <<>>
            /\ mMarkMark = <<>>
            /\ mPc = Idle
    /\ IF component = "kern" THEN TRUE
       ELSE kIn = Idle /\ kSt = Idle /\ kOut = Idle
    /\ IF component = "parser" THEN TRUE
       ELSE pIn = Idle /\ pSt = Idle
    /\ IF component = "master" THEN TRUE
       ELSE dIn = Idle /\ dSt = Idle
    /\ IF component = "axes" THEN TRUE
       ELSE aIn = Idle /\ aSt = Idle
    /\ IF component = "mapping" THEN TRUE
       ELSE uIn = Idle /\ uSt = Idle
    /\ IF component = "features" THEN TRUE
       ELSE fIn = Idle /\ fSt = Idle
    /\ IF component = "builder" THEN TRUE
       ELSE bIn = Idle /\ bSt = Idle
    /\ IF component = "raw_font" THEN TRUE
       ELSE zIn = Idle /\ zSt = Idle

RECURSIVE SeqsUpTo(_, _)
SeqsUpTo(S, n) ==
    IF n = 0 THEN {<<>>}
    ELSE LET shorter == SeqsUpTo(S, n - 1)
         IN  shorter \cup {Append(s, x) : s \in {t \in shorter : Len(t) = n - 1}, x \in S}

(***************************************************************************)
(* layout-normalizer/src/gpos/marks.rs                                     *)
(***************************************************************************)
MaxSubtables == 2

\* A NULL anchor offset in a BaseRecord / Mark2Record
NullAnchor == 0

\* the glyph of a MarkRecord that the mark coverage does not reach
NoCoverage == -1

NormBases == {1, 2}
NormMarks == {11, 12}

M(g, c, v) == [glyph |-> g, mark_class |-> c, variant |-> v]

\* mark array shapes: (mark glyph, mark class, which anchor of the subtable)
NormMarkShapes ==
    { <<M(11, 0, 1)>>, <<M(11, 1, 1)>>,
      <<M(11, 0, 1), M(12, 0, 1)>>, <<M(11, 0, 1), M(12, 0, 2)>>,
      <<M(11, 0, 1), M(12, 1, 1)>>,
      <<M(11, 0, 1), M(NoCoverage, 0, 1)>> }

\* subtable shapes: the base coverage, which anchor classes of the base
\* records are not NULL, and the mark array
NormShapes ==
    [ bases   : {<<1>>, <<2>>, <<1, 2>>},
      present : {<<TRUE, TRUE>>, <<TRUE, FALSE>>, <<FALSE, TRUE>>},
      marks   : NormMarkShapes ]

\* Anchors are particular to a subtable: the k-th subtable read has its own
\* coordinates (as in tests::first_subtable_wins).
BaseAnchorOf(k, base, class) == k * 100 + base * 10 + class
MarkAnchorOf(k, variant) == k * 100 + 50 + variant

\* The subtable of a shape, as the k-th subtable of the lookup
MakeSubtable(shape, k) ==
    [ base_coverage |-> shape.bases,
      base_records  |->
          [i \in DOMAIN shape.bases |->
              [c \in DOMAIN shape.present |->
                  IF shape.present[c]
                  THEN BaseAnchorOf(k, shape.bases[i], c - 1)
                  ELSE NullAnchor]],
      mark_coverage |->
          SelectSeq([i \in DOMAIN shape.marks |-> shape.marks[i].glyph],
                    LAMBDA g : g # NoCoverage),
      mark_records  |->
          [i \in DOMAIN shape.marks |->
              [mark_class  |-> shape.marks[i].mark_class,
               mark_anchor |-> MarkAnchorOf(k, shape.marks[i].variant)]] ]

\* `!seen.insert((base_glyph, *mark_glyph))`: the pair was already there
AlreadySeenNever(seen, pair) == FALSE

AlreadySeen(seen, pair) == pair \in seen

\* marks.entry(mark_anchor).or_insert_with(|| GlyphSet::from(g)).add(g)
MarksInsert(marks, mark_anchor, mark_glyph) ==
    IF mark_anchor \in DOMAIN marks
    THEN [marks EXCEPT ![mark_anchor] = @ \cup {mark_glyph}]
    ELSE marks @@ (mark_anchor :> {mark_glyph})

\* for (mark_ix, mark_record) in mark_records.iter().enumerate() { .. }
RECURSIVE MarkRecordsLoop(_, _, _, _, _, _)
MarkRecordsLoop(sub, base_glyph, base_anchor_ix, mark_ix, seen, marks) ==
    IF mark_ix > Len(sub.mark_records)
    THEN [seen |-> seen, marks |-> marks]
    ELSE LET rec  == sub.mark_records[mark_ix]
             skip == MarkRecordsLoop(sub, base_glyph, base_anchor_ix,
                                     mark_ix + 1, seen, marks)
         IN  IF rec.mark_class # base_anchor_ix THEN skip
             ELSE IF mark_ix > Len(sub.mark_coverage) THEN skip
             ELSE LET mark_glyph == sub.mark_coverage[mark_ix]
                      pair == <<base_glyph, mark_glyph>>
                  IN  IF AlreadySeen(seen, pair) THEN skip
                      ELSE MarkRecordsLoop(sub, base_glyph, base_anchor_ix,
                               mark_ix + 1, seen \cup {pair},
                               MarksInsert(marks, rec.mark_anchor, mark_glyph))

\* for (base_anchor_ix, base_anchor) in base_record.base_anchors(..) { .. }
RECURSIVE BaseAnchorsLoop(_, _, _, _, _, _)
BaseAnchorsLoop(kind, sub, base_ix, anchor_ix, seen, result) ==
    IF anchor_ix > Len(sub.base_records[base_ix])
    THEN [seen |-> seen, result |-> result]
    ELSE LET base_anchor == sub.base_records[base_ix][anchor_ix]
             base_glyph  == sub.base_coverage[base_ix]
         IN  IF base_anchor = NullAnchor
             THEN BaseAnchorsLoop(kind, sub, base_ix, anchor_ix + 1, seen, result)
             ELSE LET r == MarkRecordsLoop(sub, base_glyph, anchor_ix - 1, 1,
                                           seen, <<>>)
                      group == [kind        |-> kind,
                                base        |-> base_glyph,
                                base_anchor |-> base_anchor,
                                marks       |-> r.marks]
                  IN  BaseAnchorsLoop(kind, sub, base_ix, anchor_ix + 1,
                                      r.seen, Append(result, group))

\* for (base_ix, base_glyph) in subtable.base_coverage()?.iter().enumerate()
RECURSIVE BaseCoverageLoop(_, _, _, _, _)
BaseCoverageLoop(kind, sub, base_ix, seen, result) ==
    IF base_ix > Len(sub.base_coverage)
    THEN [seen |-> seen, result |-> result]
    ELSE LET r == BaseAnchorsLoop(kind, sub, base_ix, 1, seen, result)
         IN  BaseCoverageLoop(kind, sub, base_ix + 1, r.seen, r.result)

append_mark_base_rules(sub, seen, result) ==
    BaseCoverageLoop("MarkToBase", sub, 1, seen, result)

append_mark_mark_rules(sub, seen, result) ==
    BaseCoverageLoop("MarkToMark", sub, 1, seen, result)

NormInit ==
    /\ nKind \in {"MarkToBase", "MarkToMark"}
    /\ nSubtables = <<>>
    /\ nSeen = {}
    /\ nResult = <<>>
    /\ nPc = "loop"
    /\ IdleExcept("normalizer")

\* one iteration of `for sub in subtables.iter()` in get_mark_base_rules
GetMarkBaseRulesStep ==
    /\ nPc = "loop"
    /\ nKind = "MarkToBase"
    /\ Len(nSubtables) < MaxSubtables
    /\ \E shape \in NormShapes :
          LET sub == MakeSubtable(shape, Len(nSubtables) + 1)
              r   == append_mark_base_rules(sub, nSeen, nResult)
          IN  /\ nSubtables' = Append(nSubtables, sub)
              /\ nSeen' = r.seen
              /\ nResult' = r.result
    /\ UNCHANGED <<nKind, nPc>>
    /\ UNCHANGED notNormVars

\* one iteration of `for sub in subtables.iter()` in get_mark_mark_rules
GetMarkMarkRulesStep ==
    /\ nPc = "loop"
    /\ nKind = "MarkToMark"
    /\ Len(nSubtables) < MaxSubtables
    /\ \E shape \in NormShapes :
          LET sub == MakeSubtable(shape, Len(nSubtables) + 1)
              r   == append_mark_mark_rules(sub, nSeen, nResult)
          IN  /\ nSubtables' = Append(nSubtables, sub)
              /\ nSeen' = r.seen
              /\ nResult' = r.result
    /\ UNCHANGED <<nKind, nPc>>
    /\ UNCHANGED notNormVars

\* a subtable whose arrays cannot be read: `?` returns the ReadError and the
\* rules collected so far are dropped with `result`
GetRulesReadError ==
    /\ nPc = "loop"
    /\ Len(nSubtables) < MaxSubtables
    /\ nPc' = "err"
    /\ nResult' = <<>>
    /\ UNCHANGED <<nKind, nSubtables, nSeen>>
    /\ UNCHANGED notNormVars

\* Ok(result)
GetRulesReturn ==
    /\ nPc = "loop"
    /\ nPc' = "done"
    /\ UNCHANGED <<nKind, nSubtables, nSeen, nResult>>
    /\ UNCHANGED notNormVars

NormNext ==
    \/ GetMarkBaseRulesStep
    \/ GetMarkMarkRulesStep
    \/ GetRulesReadError
    \/ GetRulesReturn

SpecNormalizer == NormInit /\ [][NormNext]_vars

(***************************************************************************)
(* C1: for any sequence of subtables every (base, mark) pair is in the     *)
(* mark set of at most one returned rule; that rule carries the base       *)
(* anchor and the mark anchor of the earliest subtable that covers the     *)
(* pair, and a pair no subtable covers is in no rule.                      *)
(***************************************************************************)
\* the subtable attaches mark to base: both are covered, and the base record
\* has an anchor for the mark's class
Covers(sub, base, mark) ==
    \E bi \in DOMAIN sub.base_coverage, mi \in DOMAIN sub.mark_coverage :
        /\ sub.base_coverage[bi] = base
        /\ sub.mark_coverage[mi] = mark
        /\ sub.mark_records[mi].mark_class + 1 \in DOMAIN sub.base_records[bi]
        /\ sub.base_records[bi][sub.mark_records[mi].mark_class + 1] # NullAnchor

AnchorsIn(sub, base, mark) ==
    LET bi == CHOOSE i \in DOMAIN sub.base_coverage : sub.base_coverage[i] = base
        mi == CHOOSE i \in DOMAIN sub.mark_coverage : sub.mark_coverage[i] = mark
    IN  [base_anchor |-> sub.base_records[bi][sub.mark_records[mi].mark_class + 1],
         mark_anchor |-> sub.mark_records[mi].mark_anchor]

\* where the pair occurs in the returned rules: (rule index, mark anchor)
Occurrences(base, mark) ==
    {<<i, a>> \in UNION {{i} \X DOMAIN nResult[i].marks : i \in DOMAIN nResult} :
        nResult[i].base = base /\ mark \in nResult[i].marks[a]}

FirstSubtableWins ==
    nPc \in {"loop", "done"} =>
        \A base \in NormBases, mark \in NormMarks :
            LET covering == {k \in DOMAIN nSubtables : Covers(nSubtables[k], base, mark)}
            IN  IF covering = {}
                THEN Occurrences(base, mark) = {}
                ELSE LET first == CHOOSE k \in covering : \A j \in covering : k <= j
                         want  == AnchorsIn(nSubtables[first], base, mark)
                     IN  /\ Cardinality(Occurrences(base, mark)) = 1
                         /\ \A o \in Occurrences(base, mark) :
                               /\ nResult[o[1]].base_anchor = want.base_anchor
                               /\ o[2] = want.mark_anchor
                               /\ nResult[o[1]].kind = nKind

\* two subtables cover the same pair with different anchors, and the rules
\* have been returned
FirstSubtableWinsWitness ==
    /\ nPc = "done"
    /\ \E base \in NormBases, mark \in NormMarks :
          \E j, k \in DOMAIN nSubtables :
              /\ j < k
              /\ Covers(nSubtables[j], base, mark)
              /\ Covers(nSubtables[k], base, mark)
              /\ AnchorsIn(nSubtables[j], base, mark)
                     # AnchorsIn(nSubtables[k], base, mark)

(***************************************************************************)
(* fontbe/src/features/marks.rs: MarkLookupBuilder                         *)
(***************************************************************************)
MaxAnchorsPerGlyph == 2

\* glyph names and mark group names, in the order of a BTreeMap's keys
GlyphNames == <<"A", "acutecomb", "gravecomb">>
GroupNames == <<"bottom", "top">>

\* the same keys, iterated from the last to the first
DescendingGroups(S) ==
    LET sorted == SelectSeq(GroupNames, LAMBDA g : g \in S)
    IN  [i \in DOMAIN sorted |-> sorted[Len(sorted) + 1 - i]]

\* the keys of a BTreeMap (or a BTreeSet), iterated in order
SortedGlyphs(S) == SelectSeq(GlyphNames, LAMBDA n : n \in S)
SortedGroups(S) == SelectSeq(GroupNames, LAMBDA g : g \in S)

\* the anchors a glyph may carry, in the order of the source's layer:
\* AnchorKind::Base(group) is `top`, AnchorKind::Mark(group) is `_top`
AllAnchors ==
    <<[kind |-> "Base", group |-> "top"], [kind |-> "Mark", group |-> "top"],
      [kind |-> "Base", group |-> "bottom"], [kind |-> "Mark", group |-> "bottom"]>>

AnchorLists(kinds) ==
    {SelectSeq(AllAnchors, LAMBDA a : a \in S) :
        S \in {T \in SUBSET {a \in Range(AllAnchors) : a.kind \in kinds} :
                  Cardinality(T) <= MaxAnchorsPerGlyph}}

\* glyph_order.glyph_id(name)
glyph_id(order, name) == (CHOOSE i \in DOMAIN order : order[i] = name) - 1

\* the glyphs whose class is Base, Mark or Ligature (`include` in new)
Include(classes) ==
    {n \in DOMAIN classes : classes[n] \in {"Base", "Mark", "Ligature"}}

\* `for anchors in anchors { .. }` of new: the anchors kept for each glyph
RECURSIVE CollectAnchors(_, _, _, _, _)
CollectAnchors(anchors, i, order, include, pruned) ==
    IF i > Len(anchors) THEN pruned
    ELSE LET ga   == anchors[i]
             next == CollectAnchors(anchors, i + 1, order, include, pruned)
         IN  IF ga.glyph_name \notin Range(order) THEN next
             ELSE IF include # {} /\ ga.glyph_name \notin include THEN next
             ELSE LET kept == SelectSeq(ga.anchors,
                                  LAMBDA a : a.kind \in {"Base", "Ligature", "Mark"})
                      old  == IF ga.glyph_name \in DOMAIN pruned
                              THEN pruned[ga.glyph_name] ELSE <<>>
                      new  == IF kept = <<>> /\ ga.glyph_name \notin DOMAIN pruned
                              THEN pruned
                              ELSE [n \in DOMAIN pruned \cup {ga.glyph_name} |->
                                       IF n = ga.glyph_name THEN old \o kept
                                       ELSE pruned[n]]
                  IN  CollectAnchors(anchors, i + 1, order, include, new)

\* base_groups / mark_groups of new: the groups of the anchors collected
GroupsOfKind(pruned, kinds) ==
    {pruned[n][i].group : <<n, i>> \in
        {<<n, i>> \in UNION {{n} \X DOMAIN pruned[n] : n \in DOMAIN pruned} :
            pruned[n][i].kind \in kinds}}

\* pruned.retain(|_, anchors| { anchors.retain(..used_groups..); !anchors.is_empty() })
RetainUsed(pruned, used_groups) ==
    LET kept(n) == SelectSeq(pruned[n], LAMBDA a : a.group \in used_groups)
    IN  [n \in {m \in DOMAIN pruned : kept(m) # <<>>} |-> kept(n)]

\* mark glyphs found by their anchors alone, whatever their class
find_mark_glyphs_by_anchor(anchor_lists, gdef_classes) ==
    {n \in DOMAIN anchor_lists :
        \E i \in DOMAIN anchor_lists[n] : anchor_lists[n][i].kind = "Mark"}

find_mark_glyphs(anchor_lists, gdef_classes) ==
    {n \in DOMAIN anchor_lists :
        /\ DOMAIN gdef_classes # {}
        /\ n \in DOMAIN gdef_classes
        /\ gdef_classes[n] = "Mark"
        /\ \E i \in DOMAIN anchor_lists[n] : anchor_lists[n][i].kind = "Mark"}

\* MarkLookupBuilder::new: the pruned anchor lists
new_anchor_lists(anchors, order, gdef_classes) ==
    LET pruned == CollectAnchors(anchors, 1, order, Include(gdef_classes), <<>>)
        used_groups == GroupsOfKind(pruned, {"Base", "Ligature"})
                           \cap GroupsOfKind(pruned, {"Mark"})
    IN  RetainUsed(pruned, used_groups)

\* groups.entry(group).or_default(), with MarkGroup::default()
GroupOrDefault(groups, g) ==
    IF g \in DOMAIN groups THEN groups[g]
    ELSE [bases |-> <<>>, marks |-> <<>>, filter_glyphs |-> FALSE]

PutGroup(groups, g, value) ==
    [h \in DOMAIN groups \cup {g} |-> IF h = g THEN value ELSE groups[h]]

\* `for anchor in anchors` of make_mark_to_base_groups, for one glyph
RECURSIVE MarkBaseAnchorLoop(_, _, _, _, _, _)
MarkBaseAnchorLoop(glyph_name, anchors, i, is_mark, treat_as_base, groups) ==
    IF i > Len(anchors) THEN groups
    ELSE LET anchor == anchors[i]
             g == GroupOrDefault(groups, anchor.group)
             next == IF anchor.kind = "Base" /\ treat_as_base
                     THEN PutGroup(groups, anchor.group,
                              [g EXCEPT !.bases = Append(@, <<glyph_name, anchor>>)])
                     ELSE IF anchor.kind = "Mark" /\ is_mark
                     THEN PutGroup(groups, anchor.group,
                              [g EXCEPT !.marks = Append(@, <<glyph_name, anchor>>)])
                     ELSE groups
         IN  MarkBaseAnchorLoop(glyph_name, anchors, i + 1, is_mark, treat_as_base, next)

RECURSIVE MarkBaseGlyphLoop(_, _, _, _, _, _)
MarkBaseGlyphLoop(names, i, anchor_lists, mark_glyphs, gdef_classes, groups) ==
    IF i > Len(names) THEN groups
    ELSE LET glyph_name == names[i]
             is_mark == glyph_name \in mark_glyphs
             is_not_base ==
                 /\ DOMAIN gdef_classes # {}
                 /\ ~(glyph_name \in DOMAIN gdef_classes
                        /\ gdef_classes[glyph_name] = "Base")
             treat_as_base == ~(is_mark \/ is_not_base)
         IN  MarkBaseGlyphLoop(names, i + 1, anchor_lists, mark_glyphs, gdef_classes,
                 MarkBaseAnchorLoop(glyph_name, anchor_lists[glyph_name], 1,
                                    is_mark, treat_as_base, groups))

make_mark_to_base_groups(anchor_lists, mark_glyphs, gdef_classes) ==
    MarkBaseGlyphLoop(SortedGlyphs(DOMAIN anchor_lists), 1, anchor_lists,
                      mark_glyphs, gdef_classes, <<>>)

\* `for anchor in glyph_anchors` of the first loop, for one mark glyph
RECURSIVE MkmkBaseAnchorLoop(_, _, _, _, _)
MkmkBaseAnchorLoop(glyph, anchors, i, mark_anchors, result) ==
    IF i > Len(anchors) THEN result
    ELSE LET anchor == anchors[i]
             g == GroupOrDefault(result, anchor.group)
             next == IF anchor.kind = "Base" /\ anchor.group \in mark_anchors
                     THEN PutGroup(result, anchor.group,
                              [g EXCEPT !.filter_glyphs = TRUE,
                                        !.bases = Append(@, <<glyph, anchor>>)])
                     ELSE result
         IN  MkmkBaseAnchorLoop(glyph, anchors, i + 1, mark_anchors, next)

RECURSIVE MkmkBaseGlyphLoop(_, _, _, _, _, _)
MkmkBaseGlyphLoop(names, i, anchor_lists, mark_glyphs, mark_anchors, result) ==
    IF i > Len(names) THEN result
    ELSE LET next == IF names[i] \notin mark_glyphs THEN result
                     ELSE MkmkBaseAnchorLoop(names[i], anchor_lists[names[i]], 1,
                                             mark_anchors, result)
         IN  MkmkBaseGlyphLoop(names, i + 1, anchor_lists, mark_glyphs,
                               mark_anchors, next)

\* `for anchor in anchors` of the second loop, for one mark glyph
RECURSIVE MkmkMarkAnchorLoop(_, _, _, _)
MkmkMarkAnchorLoop(mark, anchors, i, result) ==
    IF i > Len(anchors) THEN result
    ELSE LET anchor == anchors[i]
             next == IF anchor.kind = "Mark" /\ anchor.group \in DOMAIN result
                     THEN [result EXCEPT ![anchor.group].marks =
                              Append(@, <<mark, anchor>>)]
                     ELSE result
         IN  MkmkMarkAnchorLoop(mark, anchors, i + 1, next)

RECURSIVE MkmkMarkGlyphLoop(_, _, _, _)
MkmkMarkGlyphLoop(marks, i, anchor_lists, result) ==
    IF i > Len(marks) THEN result
    ELSE MkmkMarkGlyphLoop(marks, i + 1, anchor_lists,
             MkmkMarkAnchorLoop(marks[i], anchor_lists[marks[i]], 1, result))

make_mark_to_mark_groups(anchor_lists, self_mark_glyphs) ==
    LET \* the (name, group) of every Mark anchor of a glyph of self.mark_glyphs
        pairs == {<<n, anchor_lists[n][i].group>> : <<n, i>> \in
                     {<<n, i>> \in UNION {{n} \X DOMAIN anchor_lists[n] :
                                   n \in DOMAIN anchor_lists \cap self_mark_glyphs} :
                         anchor_lists[n][i].kind = "Mark"}}
        mark_glyphs  == {p[1] : p \in pairs}
        mark_anchors == {p[2] : p \in pairs}
        bases == MkmkBaseGlyphLoop(SortedGlyphs(DOMAIN anchor_lists), 1, anchor_lists,
                                   mark_glyphs, mark_anchors, <<>>)
    IN  MkmkMarkGlyphLoop(SortedGlyphs(mark_glyphs), 1, anchor_lists, bases)

\* Option<T>: None is the empty sequence, Some(x) the sequence of x
None == <<>>
Some(x) == <<x>>

\* MarkGroup::make_filter_glyph_set, with the base marks left out
make_filter_glyph_set(group, order) ==
    IF group.filter_glyphs
    THEN Some({glyph_id(order, group.marks[i][1]) : i \in DOMAIN group.marks})
    ELSE None

\* resolve_anchor: the variable anchor of a glyph's anchor, or the
\* AnchorDeltaError of a glyph whose master system cannot be solved
resolve_anchor(anchor, solve_fails, glyph_name) ==
    IF glyph_name \in solve_fails
    THEN [ok |-> FALSE, anchor |-> None]
    ELSE [ok |-> TRUE,
          anchor |-> Some([glyph |-> glyph_name, kind |-> anchor.kind,
                           group |-> anchor.group])]

\* T::default() of a MarkToBaseBuilder / MarkToMarkBuilder
EmptyBuilder == [marks |-> <<>>, bases |-> <<>>]

\* fea-rs insert_mark / insert_mark1: the record replaces an earlier one of
\* the glyph; the call is refused when that one had another class
insert_mark(builder, gid, class, anchor) ==
    [ok |-> ~(gid \in DOMAIN builder.marks /\ builder.marks[gid].class # class),
     builder |->
        [builder EXCEPT !.marks =
            [g \in DOMAIN builder.marks \cup {gid} |->
                IF g = gid THEN [class |-> class, anchor |-> anchor]
                ELSE builder.marks[g]]]]

\* fea-rs insert_base / insert_mark2
insert_base(builder, gid, class, anchor) ==
    LET old == IF gid \in DOMAIN builder.bases THEN builder.bases[gid] ELSE <<>>
    IN  [builder EXCEPT !.bases =
            [g \in DOMAIN builder.bases \cup {gid} |->
                IF g = gid
                THEN [c \in DOMAIN old \cup {class} |->
                         IF c = class THEN anchor ELSE old[c]]
                ELSE builder.bases[g]]]

\* MarkAttachmentBuilder::add_mark: `let _ = self.insert_mark(..)`
add_mark(builder, gid, group, anchor) == insert_mark(builder, gid, group, anchor).builder

add_base(builder, gid, group, anchor) == insert_base(builder, gid, group, anchor)

\* `for (mark_name, anchor) in group.marks` of make_lookups
RECURSIVE LookupMarksLoop(_, _, _, _, _, _)
LookupMarksLoop(marks, i, group_name, order, solve_fails, builder) ==
    IF i > Len(marks) THEN [ok |-> TRUE, builder |-> builder]
    ELSE LET mark_name == marks[i][1]
             gid == glyph_id(order, mark_name)
             r == resolve_anchor(marks[i][2], solve_fails, mark_name)
         IN  IF ~r.ok THEN [ok |-> FALSE, builder |-> builder]
             ELSE LookupMarksLoop(marks, i + 1, group_name, order, solve_fails,
                      add_mark(builder, gid, group_name, r.anchor[1]))

\* `for (base_name, anchor) in group.bases` of make_lookups
RECURSIVE LookupBasesLoop(_, _, _, _, _, _)
LookupBasesLoop(bases, i, group_name, order, solve_fails, builder) ==
    IF i > Len(bases) THEN [ok |-> TRUE, builder |-> builder]
    ELSE LET base_name == bases[i][1]
             gid == glyph_id(order, base_name)
             r == resolve_anchor(bases[i][2], solve_fails, base_name)
         IN  IF ~r.ok THEN [ok |-> FALSE, builder |-> builder]
             ELSE LookupBasesLoop(bases, i + 1, group_name, order, solve_fails,
                      add_base(builder, gid, group_name, r.anchor[1]))

\* the closure of make_lookups: the PendingLookup of one group
MakeLookup(group_name, group, order, solve_fails) ==
    LET filter_set == make_filter_glyph_set(group, order)
        flags == [use_mark_filtering_set |-> filter_set # None]
        m == LookupMarksLoop(group.marks, 1, group_name, order, solve_fails,
                             EmptyBuilder)
        b == LookupBasesLoop(group.bases, 1, group_name, order, solve_fails,
                             m.builder)
    IN  [ok |-> m.ok /\ b.ok,
         lookup |-> [group |-> group_name, subtables |-> <<b.builder>>,
                     flags |-> flags, filter_set |-> filter_set]]

\* groups.into_iter().filter(..).map(..).collect::<Result<Vec<_>, _>>()
RECURSIVE LookupsLoop(_, _, _, _, _, _)
LookupsLoop(names, i, groups, order, solve_fails, lookups) ==
    IF i > Len(names) THEN [ok |-> TRUE, lookups |-> lookups]
    ELSE LET group == groups[names[i]]
         IN  IF group.bases = <<>> \/ group.marks = <<>>
             THEN LookupsLoop(names, i + 1, groups, order, solve_fails, lookups)
             ELSE LET r == MakeLookup(names[i], group, order, solve_fails)
                  IN  IF ~r.ok THEN [ok |-> FALSE, lookups |-> <<>>]
                      ELSE LookupsLoop(names, i + 1, groups, order, solve_fails,
                                       Append(lookups, r.lookup))

make_lookups(groups, order, solve_fails) ==
    LookupsLoop(SortedGroups(DOMAIN groups), 1, groups, order, solve_fails, <<>>)

\* the glyphs the source may hold: a base letter and two combining marks
MarksInit ==
    LET GlyphAnchorsOf(name) ==
            IF name = "A" THEN AnchorLists({"Base"}) ELSE AnchorLists({"Base", "Mark"})
        GlyphClassesOf(name) ==
            IF name = "A" THEN {"None", "Base", "Component"}
            ELSE {"None", "Mark", "Base", "Component"}
    IN
    /\ mOrder \in {GlyphNames, SelectSeq(GlyphNames, LAMBDA n : n # "gravecomb")}
    /\ \E cls \in [Range(GlyphNames) -> {"None", "Base", "Mark", "Component"}] :
          /\ \A n \in Range(GlyphNames) : cls[n] \in GlyphClassesOf(n)
          /\ mClasses = [n \in {m \in Range(GlyphNames) : cls[m] # "None"} |-> cls[n]]
    /\ \E lists \in [Range(GlyphNames) -> AnchorLists({"Base", "Mark"})] :
          /\ \A n \in Range(GlyphNames) : lists[n] \in GlyphAnchorsOf(n)
          /\ mAnchors = [i \in DOMAIN GlyphNames |->
                            [glyph_name |-> GlyphNames[i],
                             anchors |-> lists[GlyphNames[i]]]]
    /\ mSolveFails \in {{}, {"gravecomb"}}
    /\ mAnchorLists = <<>>
    /\ mMarkGlyphs = {}
    /\ mMarkBase = <<>>
    /\ mMarkMark = <<>>
    /\ mPc = "new"
    /\ IdleExcept("marks")

\* MarkLookupBuilder::new
MarkLookupBuilderNew ==
    /\ mPc = "new"
    /\ LET anchor_lists == new_anchor_lists(mAnchors, mOrder, mClasses)
       IN  /\ mAnchorLists' = anchor_lists
           /\ mMarkGlyphs' = find_mark_glyphs(anchor_lists, mClasses)
    /\ mPc' = "build"
    /\ UNCHANGED <<mOrder, mClasses, mAnchors, mSolveFails, mMarkBase, mMarkMark>>
    /\ UNCHANGED notMarksVars

\* MarkLookupBuilder::build
MarkLookupBuilderBuild ==
    /\ mPc = "build"
    /\ LET mark_base_groups ==
               make_mark_to_base_groups(mAnchorLists, mMarkGlyphs, mClasses)
           mark_mark_groups == make_mark_to_mark_groups(mAnchorLists, mMarkGlyphs)
           mark_base == make_lookups(mark_base_groups, mOrder, mSolveFails)
           mark_mark == make_lookups(mark_mark_groups, mOrder, mSolveFails)
       IN  IF mark_base.ok /\ mark_mark.ok
           THEN /\ mMarkBase' = mark_base.lookups
                /\ mMarkMark' = mark_mark.lookups
                /\ mPc' = "done"
           ELSE /\ mPc' = "err"
                /\ UNCHANGED <<mMarkBase, mMarkMark>>
    /\ UNCHANGED <<mOrder, mClasses, mAnchors, mSolveFails, mAnchorLists, mMarkGlyphs>>
    /\ UNCHANGED notMarksVars

MarksNext ==
    \/ MarkLookupBuilderNew
    \/ MarkLookupBuilderBuild

SpecMarks == MarksInit /\ [][MarksNext]_vars

(***************************************************************************)
(* C2: the mark filtering set of every mark-to-mark lookup is exactly the  *)
(* set of the mark glyphs of the lookup: every glyph inserted as an        *)
(* attaching mark (mark1) or as a base mark (mark2), and no other.         *)
(***************************************************************************)
FilterSetIsLookupMarks ==
    LET LookupGlyphs(lookup) ==
            UNION {DOMAIN lookup.subtables[i].marks \cup DOMAIN lookup.subtables[i].bases :
                      i \in DOMAIN lookup.subtables}
    IN  mPc = "done" =>
            \A i \in DOMAIN mMarkMark :
                mMarkMark[i].filter_set = Some(LookupGlyphs(mMarkMark[i]))

\* a mark-to-mark lookup was built
FilterSetWitness ==
    /\ mPc = "done"
    /\ mMarkMark # <<>>

(***************************************************************************)
(* fontbe/src/kern.rs: KerningWork::exec                                   *)
(***************************************************************************)
MaxKerns == 2

\* the glyph order of the font; glyph id 0 is .notdef
KernGlyphOrder == <<".notdef", "T", "a">>

\* ir kerning groups: `a` and `T` are glyphs of the font, `zz` is not
KernGroups ==
    {[g \in {"g1"} |-> {"T", "a"}],
     [g \in {"g1"} |-> {"a", "zz"}],
     [g \in {"g1", "g2"} |-> IF g = "g1" THEN {"T"} ELSE {"zz"}]}

\* KernParticipant::Glyph(name), KernParticipant::Group(name), in their order
KernParticipants ==
    <<[kind |-> "Glyph", name |-> "T"], [kind |-> "Glyph", name |-> "zz"],
      [kind |-> "Group", name |-> "g1"], [kind |-> "Group", name |-> "g2"]>>

\* the keys a BTreeMap<(KernParticipant, KernParticipant), _> may hold, ascending
KernKeys ==
    [k \in 1..(Len(KernParticipants) * Len(KernParticipants)) |->
        <<KernParticipants[((k - 1) \div Len(KernParticipants)) + 1],
          KernParticipants[((k - 1) % Len(KernParticipants)) + 1]>>]

\* the per-location values of a kern, by what resolve_variable_metric makes
\* of them: a default and deltas, or an error
KernValues ==
    {[ok |-> TRUE, default_value |-> -60, deltas |-> <<>>],
     [ok |-> TRUE, default_value |-> -60, deltas |-> <<-60>>],
     [ok |-> TRUE, default_value |-> -100, deltas |-> <<-20>>],
     [ok |-> FALSE, default_value |-> 0, deltas |-> <<>>]}

resolve_variable_metric(values) == values

\* Kerning::default(), add_deltas, add_pair, add_class
KerningDefault == [deltas |-> <<>>, rules |-> <<>>]

\* every added delta sequence reported at index 0
add_deltas_at_zero(kerning, deltas) ==
    [idx |-> 0, kerning |-> [kerning EXCEPT !.deltas = Append(@, deltas)]]

add_deltas(kerning, deltas) ==
    [idx |-> Len(kerning.deltas),
     kerning |-> [kerning EXCEPT !.deltas = Append(@, deltas)]]

add_pair(kerning, gid0, record, gid1, delta_idx) ==
    [kerning EXCEPT !.rules = Append(@,
        [rule |-> "pair", left |-> gid0, x_advance |-> record,
         right |-> gid1, delta_idx |-> delta_idx])]

add_class(kerning, left, record, right, delta_idx) ==
    [kerning EXCEPT !.rules = Append(@,
        [rule |-> "class", left |-> left, x_advance |-> record,
         right |-> right, delta_idx |-> delta_idx])]

MissingGlyphId(name) == [error |-> "MissingGlyphId", name |-> name]

\* the closure `gid`: glyph_order.glyph_id(name).ok_or_else(MissingGlyphId)
gid(glyph_order, name) ==
    IF name \in Range(glyph_order)
    THEN [ok |-> TRUE, gid |-> glyph_id(glyph_order, name), err |-> None]
    ELSE [ok |-> FALSE, gid |-> 0, err |-> Some(MissingGlyphId(name))]

\* glyph_classes: glyph_order.glyph_id(name).unwrap_or(0) for every member
glyph_classes(groups, glyph_order) ==
    [class_name \in DOMAIN groups |->
        {IF name \in Range(glyph_order) THEN glyph_id(glyph_order, name) ELSE 0 :
            name \in groups[class_name]}]

\* glyph_classes.get(name).ok_or_else(MissingGlyphId)
GetClass(classes, name) ==
    IF name \in DOMAIN classes
    THEN [ok |-> TRUE, class |-> classes[name], err |-> None]
    ELSE [ok |-> FALSE, class |-> {}, err |-> Some(MissingGlyphId(name))]

\* the group of a mixed entry not enumerated
EnumerateNoPairs(kerning, class, next_gid, other, group_is_left, record, delta_idx) ==
    kerning

\* `for gid in class.iter()`: one pair per glyph of the class, by glyph id
RECURSIVE EnumeratePairs(_, _, _, _, _, _, _)
EnumeratePairs(kerning, class, next_gid, other, group_is_left, record, delta_idx) ==
    IF \A g \in class : g < next_gid THEN kerning
    ELSE LET added == IF next_gid \notin class THEN kerning
                      ELSE IF group_is_left
                      THEN add_pair(kerning, next_gid, record, other, delta_idx)
                      ELSE add_pair(kerning, other, record, next_gid, delta_idx)
         IN  EnumeratePairs(added, class, next_gid + 1, other, group_is_left,
                            record, delta_idx)

\* the body of `for ((left, right), values) in &ir_kerning.kerns`
KernEntry(st, glyph_order, entry) ==
    LET left == entry.key[1]
        right == entry.key[2]
        resolved == resolve_variable_metric(entry.values)
        deltas == resolved.deltas
        known == deltas # <<>> /\ deltas \in DOMAIN st.delta_indices
        added == add_deltas(st.kerning, deltas)
        kerning == IF deltas # <<>> /\ ~known THEN added.kerning ELSE st.kerning
        delta_indices ==
            IF deltas # <<>> /\ ~known
            THEN [d \in DOMAIN st.delta_indices \cup {deltas} |->
                     IF d = deltas THEN added.idx ELSE st.delta_indices[d]]
            ELSE st.delta_indices
        delta_idx == IF deltas = <<>> THEN None ELSE Some(delta_indices[deltas])
        x_adv_record == resolved.default_value
        with == [st EXCEPT !.kerning = kerning, !.delta_indices = delta_indices,
                           !.i = st.i + 1]
        fail(err) == [with EXCEPT !.pc = "err", !.err = err]
        lg == gid(glyph_order, left.name)
        rg == gid(glyph_order, right.name)
        lc == GetClass(st.glyph_classes, left.name)
        rc == GetClass(st.glyph_classes, right.name)
    IN  IF ~resolved.ok
        THEN [st EXCEPT !.pc = "err", !.err = Some([error |-> "VariationModel"])]
        ELSE IF left.kind = "Glyph" /\ right.kind = "Glyph"
        THEN IF ~lg.ok THEN fail(lg.err)
             ELSE IF ~rg.ok THEN fail(rg.err)
             ELSE [with EXCEPT !.kerning =
                      add_pair(kerning, lg.gid, x_adv_record, rg.gid, delta_idx)]
        ELSE IF left.kind = "Group" /\ right.kind = "Group"
        THEN IF ~lc.ok THEN fail(lc.err)
             ELSE IF ~rc.ok THEN fail(rc.err)
             ELSE [with EXCEPT !.kerning =
                      add_class(kerning, lc.class, x_adv_record, rc.class, delta_idx)]
        ELSE IF left.kind = "Glyph" /\ right.kind = "Group"
        THEN IF ~lg.ok THEN fail(lg.err)
             ELSE IF ~rc.ok THEN fail(rc.err)
             ELSE [with EXCEPT !.kerning =
                      EnumeratePairs(kerning, rc.class, 0, lg.gid, FALSE,
                                     x_adv_record, delta_idx)]
        ELSE IF ~lc.ok THEN fail(lc.err)
             ELSE IF ~rg.ok THEN fail(rg.err)
             ELSE [with EXCEPT !.kerning =
                      EnumeratePairs(kerning, lc.class, 0, rg.gid, TRUE,
                                     x_adv_record, delta_idx)]

KernInit ==
    /\ \E groups \in KernGroups, keys \in SUBSET DOMAIN KernKeys :
          /\ Cardinality(keys) <= MaxKerns
          /\ \E values \in [keys -> KernValues] :
                LET ks == SelectSeq([k \in DOMAIN KernKeys |-> k], LAMBDA k : k \in keys)
                IN  kIn = [glyph_order |-> KernGlyphOrder,
                           groups |-> groups,
                           kerns |-> [n \in DOMAIN ks |->
                                         [key |-> KernKeys[ks[n]],
                                          values |-> values[ks[n]]]]]
    /\ kSt = [pc |-> "start", i |-> 1, glyph_classes |-> <<>>,
              kerning |-> KerningDefault, delta_indices |-> <<>>, err |-> None]
    /\ kOut = <<>>
    /\ IdleExcept("kern")

\* exec up to the loop: the glyph classes and the empty Kerning
KernExecStart ==
    /\ kSt.pc = "start"
    /\ kSt' = [kSt EXCEPT !.pc = "loop",
                          !.glyph_classes = glyph_classes(kIn.groups, kIn.glyph_order)]
    /\ UNCHANGED <<kIn, kOut>>
    /\ UNCHANGED notKernVars

\* an iteration that, unlike exec, publishes what it has when an entry fails
KernExecEntryPublishing ==
    /\ kSt.pc = "loop"
    /\ kSt.i <= Len(kIn.kerns)
    /\ kSt' = KernEntry(kSt, kIn.glyph_order, kIn.kerns[kSt.i])
    /\ kOut' = IF kSt'.pc = "err" THEN Append(kOut, kSt'.kerning) ELSE kOut
    /\ UNCHANGED kIn
    /\ UNCHANGED notKernVars

\* one iteration of the loop over ir_kerning.kerns
KernExecEntry ==
    /\ kSt.pc = "loop"
    /\ kSt.i <= Len(kIn.kerns)
    /\ kSt' = KernEntry(kSt, kIn.glyph_order, kIn.kerns[kSt.i])
    /\ UNCHANGED <<kIn, kOut>>
    /\ UNCHANGED notKernVars

\* context.kerning.set(kerning); Ok(())
KernExecSet ==
    /\ kSt.pc = "loop"
    /\ kSt.i > Len(kIn.kerns)
    /\ kOut' = Append(kOut, kSt.kerning)
    /\ kSt' = [kSt EXCEPT !.pc = "done"]
    /\ UNCHANGED kIn
    /\ UNCHANGED notKernVars

KernNext ==
    \/ KernExecStart
    \/ KernExecEntry
    \/ KernExecSet

SpecKern == KernInit /\ [][KernNext]_vars

(***************************************************************************)
(* C3: exec fails whenever the kerning input references a name that cannot *)
(* be resolved (a glyph participant absent from the glyph order, a group   *)
(* participant absent from the groups, a member of a participating group   *)
(* absent from the glyph order), the error names a missing name, and no    *)
(* rule is emitted for a substituted glyph id.                             *)
(***************************************************************************)
UnresolvedNamesFail ==
    LET glyph_names == Range(kIn.glyph_order)
        participants == UNION {{kIn.kerns[n].key[1], kIn.kerns[n].key[2]} :
                                  n \in DOMAIN kIn.kerns}
        members == UNION {kIn.groups[p.name] :
                             p \in {q \in participants : q.kind = "Group"
                                        /\ q.name \in DOMAIN kIn.groups}}
        unresolved ==
            {p.name : p \in {q \in participants :
                \/ q.kind = "Glyph" /\ q.name \notin glyph_names
                \/ q.kind = "Group" /\ q.name \notin DOMAIN kIn.groups}}
            \cup (members \ glyph_names)
        named == {glyph_id(kIn.glyph_order, n) :
                     n \in ({p.name : p \in participants} \cup members) \cap glyph_names}
        gids(side) == IF side \in Int THEN {side} ELSE side
    IN  /\ kSt.pc = "done" => unresolved = {}
        /\ kSt.pc = "err" /\ kSt.err[1].error = "MissingGlyphId"
              => kSt.err[1].name \in unresolved
        /\ \A n \in DOMAIN kSt.kerning.rules :
              gids(kSt.kerning.rules[n].left) \cup gids(kSt.kerning.rules[n].right)
                  \subseteq named

(***************************************************************************)
(* src/grammar: the feature file parser.  A token is its Kind; the raw     *)
(* text matters only for the identifiers `base`, `ligature` and            *)
(* `ligComponent`, which are Kinds of their own here.  Trivia is left out. *)
(***************************************************************************)
MaxTokens == 4

Live(p) == ~p.panic /\ ~p.hang

\* Parser::nth(n).kind, Eof past the end
nth(p, n) == IF p.pos + n <= Len(pIn) THEN pIn[p.pos + n] ELSE "Eof"

\* Parser::matches(n, kinds)
matches(p, n, kinds) == Live(p) /\ nth(p, n) \in kinds

\* Parser::eat_remap: the token enters the tree under the kind `to`
eat_remap(p, kinds, to) ==
    IF matches(p, 0, kinds) /\ p.pos <= Len(pIn)
    THEN [p EXCEPT !.pos = @ + 1, !.tree = Append(@, [ev |-> "TOKEN", kind |-> to])]
    ELSE p

\* Parser::eat_raw
eat_raw(p) == eat_remap(p, {nth(p, 0)}, nth(p, 0))

\* Parser::eat
eat(p, kinds) == eat_remap(p, kinds, nth(p, 0))

\* assert!(parser.eat(kind))
assert_eat(p, kinds) ==
    IF ~Live(p) THEN p
    ELSE IF matches(p, 0, kinds) THEN eat(p, kinds)
    ELSE [p EXCEPT !.panic = TRUE]

\* Parser::err: a diagnostic with its place
err(p, msg) ==
    IF Live(p) THEN [p EXCEPT !.errs = Append(@, [at |-> p.pos, msg |-> msg])] ELSE p

\* Parser::expect
expect(p, kinds) == IF matches(p, 0, kinds) THEN eat(p, kinds) ELSE err(p, "expected")

\* Parser::eat_until
RECURSIVE eat_until(_, _)
eat_until(p, recovery) ==
    IF ~Live(p) \/ nth(p, 0) = "Eof" \/ matches(p, 0, recovery) THEN p
    ELSE eat_until(eat_raw(p), recovery)

\* Parser::expect_recover: on a mismatch, a diagnostic and a scan forward to
\* the nearest recovery token
expect_recover(p, kinds, recovery) ==
    IF matches(p, 0, kinds) THEN eat(p, kinds)
    ELSE eat_until(err(p, "expected"), recovery)

\* Parser::err_and_bump
err_and_bump(p, msg) == eat_raw(err(p, msg))

\* Parser::start_node, Parser::finish_node
start_node(p, kind) ==
    IF ~Live(p) THEN p
    ELSE [p EXCEPT !.open = Append(@, kind),
                   !.tree = Append(@, [ev |-> "START", kind |-> kind])]

finish_node(p) ==
    IF ~Live(p) THEN p
    ELSE [p EXCEPT !.open = SubSeq(@, 1, Len(@) - 1),
                   !.tree = Append(@, [ev |-> "END", kind |-> p.open[Len(p.open)]])]

\* TokenSet::FEATURE_BODY_ITEM, TOP_LEVEL, TOP_SEMI
FEATURE_BODY_ITEM ==
    {"PosKw", "SubKw", "RsubKw", "IgnoreKw", "EnumKw", "NamedGlyphClass", "MarkClassKw",
     "ParametersKw", "SubtableKw", "LookupKw", "LookupflagKw", "ScriptKw", "LanguageKw",
     "FeatureKw", "SizemenunameKw", "CvParametersKw", "FeatureNamesKw"}

TOP_LEVEL ==
    {"TableKw", "IncludeKw", "LookupKw", "LanguagesystemKw", "AnchorDefKw", "FeatureKw",
     "MarkClassKw", "AnonKw", "NamedGlyphClass"}

TOP_SEMI == TOP_LEVEL \cup {"Semi"}

\* glyph::eat_glyph_or_glyph_class: a glyph name, a named class or `[ .. ]`
RECURSIVE eat_glyph_names(_)
eat_glyph_names(p) ==
    IF matches(p, 0, {"GlyphName", "NamedGlyphClass"}) THEN eat_glyph_names(eat_raw(p))
    ELSE p

eat_glyph_or_glyph_class(p, recovery) ==
    IF matches(p, 0, {"GlyphName", "NamedGlyphClass"})
    THEN [p |-> eat_raw(p), ok |-> TRUE]
    ELSE IF matches(p, 0, {"LSquare"})
    THEN [p |-> finish_node(expect_recover(
                    eat_glyph_names(eat_raw(start_node(p, "GlyphClass"))),
                    {"RSquare"}, recovery)),
          ok |-> TRUE]
    ELSE [p |-> p, ok |-> FALSE]

\* metrics::eat_value_record: a number, or `< number* >`
RECURSIVE eat_numbers(_)
eat_numbers(p) == IF matches(p, 0, {"Number"}) THEN eat_numbers(eat_raw(p)) ELSE p

eat_value_record(p, recovery) ==
    IF matches(p, 0, {"Number"})
    THEN [p |-> finish_node(eat_raw(start_node(p, "ValueRecordNode"))), ok |-> TRUE]
    ELSE IF matches(p, 0, {"LAngle"}) /\ ~matches(p, 1, {"AnchorKw"})
    THEN [p |-> finish_node(expect_recover(
                    eat_numbers(eat_raw(start_node(p, "ValueRecordNode"))),
                    {"RAngle"}, recovery)),
          ok |-> TRUE]
    ELSE [p |-> p, ok |-> FALSE]

\* metrics::anchor: `< anchor (NULL | name | number number) >`
anchor(p, recovery) ==
    LET a == expect(expect(start_node(p, "AnchorNode"), {"LAngle"}), {"AnchorKw"})
        b == IF matches(a, 0, {"NullKw", "Ident"}) THEN eat_raw(a)
             ELSE expect_recover(expect_recover(a, {"Number"}, recovery \cup {"RAngle"}),
                                 {"Number"}, recovery \cup {"RAngle"})
    IN  finish_node(expect_recover(b, {"RAngle"}, recovery))

\* gsub::gsub: `[ignore] sub|rsub .. ;`
gsub(p, recovery) ==
    LET a == assert_eat(eat(start_node(p, "GsubNode"), {"IgnoreKw"}), {"SubKw", "RsubKw"})
        b == eat_glyph_names(a)
        c == eat_glyph_names(eat(b, {"ByKw", "FromKw"}))
    IN  finish_node(expect_recover(c, {"Semi"}, recovery))

\* Kind::Ident, whatever the raw text
Idents == {"Ident", "IdentBase", "IdentLigature", "IdentLigComponent"}

\* gpos.rs: anchor_mark, `<anchor> mark <named mark glyphclass>`
anchor_mark(p, recovery) ==
    LET RECOVERY == {"MarkKw", "NamedGlyphClass", "Semi"}
    IN  IF ~(matches(p, 0, {"LAngle"}) /\ matches(p, 1, {"AnchorKw"}))
        THEN [p |-> p, ok |-> FALSE]
        ELSE [p |-> finish_node(
                      expect_recover(
                        expect_recover(
                          anchor(start_node(p, "AnchorMarkNode"), recovery \cup RECOVERY),
                          {"MarkKw"}, recovery \cup RECOVERY),
                        {"Semi"}, recovery)),
              ok |-> TRUE]

\* `while anchor_mark(parser, recovery) { continue; }`
RECURSIVE anchor_marks(_, _)
anchor_marks(p, recovery) ==
    LET r == anchor_mark(p, recovery)
    IN  IF r.ok THEN anchor_marks(r.p, recovery) ELSE p

gpos_cursive(p, recovery) ==
    LET a == assert_eat(p, {"CursiveKw"})
        b == eat_glyph_or_glyph_class(a, recovery \cup {"LAngle"}).p
        c == anchor(anchor(b, recovery \cup {"LAngle"}), recovery)
    IN  expect_recover(c, {"Semi"}, recovery)

gpos_mark_to_(p, recovery) ==
    LET a == eat_glyph_or_glyph_class(p, recovery \cup {"LAngle", "AnchorKw"}).p
    IN  expect_recover(anchor_marks(a, recovery), {"Semi"}, recovery)

gpos_mark_to_mark(p, recovery) == gpos_mark_to_(assert_eat(p, {"MarkKw"}), recovery)

gpos_mark_to_base(p, recovery) ==
    gpos_mark_to_(eat_remap(p, {"IdentBase"}, "BaseKw"), recovery)

\* gpos_ligature: the loop on `ligComponent` eats no token, so it never
\* ends once it is entered
gpos_ligature(p, recovery) ==
    LET a == eat_remap(p, {"IdentLigature"}, "LigatureKw")
        b == eat_glyph_or_glyph_class(a, recovery \cup {"LAngle", "AnchorKw"}).p
        c == anchor_marks(b, recovery)
    IN  IF matches(c, 0, {"IdentLigComponent"}) THEN [c EXCEPT !.hang = TRUE]
        ELSE expect_recover(c, {"Semi"}, recovery)

eat_chain_element(p, recovery) ==
    IF matches(p, 0, {"SingleQuote", "LookupKw"} \cup Idents)
    THEN [p |-> eat_raw(p), ok |-> TRUE]
    ELSE eat_glyph_or_glyph_class(p, recovery)

\* `while eat_chain_element(parser, recovery) { continue; }`
RECURSIVE eat_chain_elements(_, _)
eat_chain_elements(p, recovery) ==
    LET r == eat_chain_element(p, recovery)
    IN  IF r.ok THEN eat_chain_elements(r.p, recovery) ELSE p

\* every rule taken for a chain rule
gpos_chain_only(p, recovery) ==
    expect_recover(eat_chain_elements(eat(p, {"EnumKw"}), recovery), {"Semi"}, recovery)

gpos_single_pair_or_chain(p, recovery) ==
    LET RECOVERY == {"LAngle", "SingleQuote", "Number", "Semi", "LookupKw"}
        a  == eat(p, {"EnumKw"})
        g1 == eat_glyph_or_glyph_class(a, recovery \cup RECOVERY)
        v1 == eat_value_record(g1.p, recovery)
        \* after a value record: a single rule, or pair type A
        a2 == eat_glyph_or_glyph_class(v1.p, recovery)
        a3 == eat_value_record(a2.p, recovery)
        \* no value record: pair type B, or a chain rule
        g2 == eat_glyph_or_glyph_class(v1.p, recovery \cup RECOVERY)
        v2 == eat_value_record(g2.p, recovery)
    IN  IF v1.ok
        THEN IF matches(v1.p, 0, {"Semi"}) THEN eat(v1.p, {"Semi"})
             ELSE expect_recover(a3.p, {"Semi"}, recovery)
        ELSE IF g2.ok /\ v2.ok THEN expect_recover(v2.p, {"Semi"}, recovery)
        ELSE expect_recover(
                 eat_chain_elements(IF g2.ok THEN v2.p ELSE g2.p, recovery),
                 {"Semi"}, recovery)

\* gpos, with its inner gpos_body
gpos(p, recovery) ==
    LET a == assert_eat(start_node(p, "GposNode"), {"PosKw"})
        body == IF matches(a, 0, {"CursiveKw"}) THEN gpos_cursive(a, recovery)
                ELSE IF matches(a, 0, {"MarkKw"}) THEN gpos_mark_to_mark(a, recovery)
                ELSE IF matches(a, 0, {"IdentBase"}) THEN gpos_mark_to_base(a, recovery)
                ELSE IF matches(a, 0, {"IdentLigature"}) THEN gpos_ligature(a, recovery)
                ELSE gpos_single_pair_or_chain(a, recovery)
    IN  finish_node(body)

\* feature.rs: pos_or_sub_rule
pos_or_sub_rule(p, recovery) ==
    LET k0 == nth(p, 0)
        k1 == nth(p, 1)
    IN  IF k0 = "PosKw" THEN gpos(p, recovery)
        ELSE IF k0 = "EnumKw" /\ k1 = "PosKw" THEN gpos(p, recovery)
        ELSE IF k0 = "EnumKw"
        THEN err_and_bump(p, "'enum' keyword must be followed by position rule")
        ELSE IF k0 = "IgnoreKw"
        THEN IF k1 = "PosKw" THEN gpos(p, recovery)
             ELSE IF k1 = "SubKw" THEN gsub(p, recovery)
             ELSE err_and_bump(p,
                "'ignore' keyword must be followed by position or substitution rule")
        ELSE IF k0 \in {"SubKw", "RsubKw"} THEN gsub(p, recovery)
        ELSE [p EXCEPT !.panic = TRUE]

\* feature_body_item, for the items whose productions are in feature.rs and
\* gpos.rs; the result is the parser, which has moved iff the item returned true
feature_body_item(p) ==
    LET k0 == nth(p, 0)
    IN  IF k0 \in {"PosKw", "SubKw", "RsubKw", "IgnoreKw", "EnumKw"}
        THEN pos_or_sub_rule(p, FEATURE_BODY_ITEM)
        ELSE IF k0 = "SubtableKw"
        THEN expect_recover(eat_raw(p), {"Semi"}, FEATURE_BODY_ITEM)
        ELSE p

\* the token streams parsed: `feature <tag> {`, a body, and the closing
\* `} <tag> ;` whole or cut short
BodyTokens == {"EnumKw", "IgnoreKw", "PosKw", "SubKw", "GlyphName", "Number", "Semi"}

ParserInit ==
    /\ \E body \in SeqsUpTo(BodyTokens, MaxTokens),
          tail \in {<<"RBrace", "Ident", "Semi">>, <<"RBrace">>} :
          pIn = <<"FeatureKw", "Ident", "LBrace">> \o body \o tail
    /\ pSt = [pc |-> "feature", pos |-> 1, errs |-> <<>>, open |-> <<>>, tree |-> <<>>,
              panic |-> FALSE, hang |-> FALSE, tag_kind |-> "Ident"]
    /\ IdleExcept("parser")

\* feature and feature_body, up to the `{`
FeatureOpen ==
    /\ pSt.pc = "feature"
    /\ LET KEYWORD_TAGS == {"MarkKw", "AnonKw", "ByKw", "FromKw", "PosKw", "RsubKw"}
           a == assert_eat(start_node(pSt, "FeatureKw"), {"FeatureKw"})
           tag_kind == IF matches(a, 0, KEYWORD_TAGS) THEN nth(a, 0) ELSE "Ident"
           tag_kinds == IF tag_kind = "Ident" THEN Idents ELSE {tag_kind}
           b == IF matches(a, 0, tag_kinds) THEN eat_remap(a, tag_kinds, "Ident")
                ELSE eat_until(err(a, "expected"), {"UseExtensionKw", "LBrace"})
           c == expect(eat(b, {"UseExtensionKw"}), {"LBrace"})
       IN  pSt' = [c EXCEPT !.tag_kind = tag_kind,
                            !.pc = IF Live(c) THEN "body" ELSE "abort"]
    /\ UNCHANGED pIn
    /\ UNCHANGED notParserVars

\* one iteration of `while feature_body_item(parser) { continue; }`
FeatureBodyItem ==
    /\ pSt.pc = "body"
    /\ LET a == feature_body_item(pSt)
       IN  pSt' = [a EXCEPT !.pc = IF ~Live(a) THEN "abort"
                                   ELSE IF a.pos # pSt.pos THEN "body" ELSE "close"]
    /\ UNCHANGED pIn
    /\ UNCHANGED notParserVars

\* the end of feature_body and of feature: `} <tag> ;` and finish_node
FeatureClose ==
    /\ pSt.pc = "close"
    /\ LET tag_kinds == IF pSt.tag_kind = "Ident" THEN Idents ELSE {pSt.tag_kind}
           a == expect_recover(pSt, {"RBrace"}, TOP_SEMI)
           b == IF matches(a, 0, tag_kinds) THEN eat_remap(a, tag_kinds, "Ident")
                ELSE eat_until(err(a, "expected"), TOP_LEVEL)
           c == finish_node(expect_recover(b, {"Semi"}, TOP_LEVEL))
       IN  pSt' = [c EXCEPT !.pc = "done"]
    /\ UNCHANGED pIn
    /\ UNCHANGED notParserVars

ParserNext ==
    \/ FeatureOpen
    \/ FeatureBodyItem
    \/ FeatureClose

SpecParser == ParserInit /\ [][ParserNext]_vars

(***************************************************************************)
(* C4: parsing a feature block never aborts: no assert! and no panic! of   *)
(* the grammar fires, whatever the token stream, a body item starting with *)
(* `enum pos` or `ignore pos` included.                                    *)
(***************************************************************************)
ParsingNeverAborts == ~pSt.panic

(***************************************************************************)
(* glyphs-reader/src/font.rs: default_master_idx                           *)
(***************************************************************************)
MaxMasters == 3

\* a master name is text: words, kept apart by one or more spaces
Space == " "

MasterNames ==
    {<<>>, <<"Regular">>, <<"Bold">>,
     <<"Regular", Space, "Regular">>, <<"Regular", Space, "Bold">>,
     <<"Bold", Space, "Regular">>, <<"Bold", Space, "Bold">>,
     <<Space, "Bold">>, <<"Bold", Space, Space, "Regular">>}

\* the id of the n-th master of the file; no master has the id 0
MasterId(n) == 10 * n

\* CustomParameters::string: the first parameter of that name, if a String
string(custom_parameters, name) ==
    LET named == SelectSeq(custom_parameters, LAMBDA c : c.name = name)
    IN  IF named # <<>> /\ named[1].value.type = "String"
        THEN Some(named[1].value.value) ELSE None

\* s.split_whitespace().collect()
whitespace_separated_tokens(s) == SelectSeq(s, LAMBDA c : c # Space)

\* the explicit origin ignored
OriginPositionNone(raw_font) == None

\* .string("Variable Font Origin").and_then(|origin| .. position(..)),
\* the position counted from 0
OriginPosition(raw_font) ==
    LET origin == string(raw_font.custom_parameters, "Variable Font Origin")
        hits == IF origin = None THEN {}
                ELSE {i \in DOMAIN raw_font.font_master :
                         raw_font.font_master[i].id = origin[1]}
    IN  IF hits = {} THEN None
        ELSE Some((CHOOSE i \in hits : \A j \in hits : i <= j) - 1)

\* the contenders: (ordinal, words in name) of the masters that have names
Contenders(raw_font) ==
    LET named == SelectSeq([i \in DOMAIN raw_font.font_master |-> i],
                           LAMBDA i : raw_font.font_master[i].name # None)
    IN  [k \in DOMAIN named |->
            [idx |-> named[k] - 1,
             words |-> whitespace_separated_tokens(raw_font.font_master[named[k]].name[1])]]

\* common_words: the words of the first contender that every other has
CommonWords(contenders) ==
    SelectSeq(contenders[1].words,
              LAMBDA w : \A k \in 2..Len(contenders) : w \in Range(contenders[k].words))

\* the loop stopped at the first contender that matches in either way
RECURSIVE BestIdxFirstMatch(_, _, _, _)
BestIdxFirstMatch(contenders, k, common_words, best_idx) ==
    IF k > Len(contenders) THEN best_idx
    ELSE IF common_words = contenders[k].words
              \/ common_words = SelectSeq(contenders[k].words, LAMBDA w : w # "Regular")
    THEN contenders[k].idx
    ELSE BestIdxFirstMatch(contenders, k + 1, common_words, best_idx)

\* `for (idx, mut words) in contenders`, from the k-th contender on
RECURSIVE BestIdx(_, _, _, _)
BestIdx(contenders, k, common_words, best_idx) ==
    IF k > Len(contenders) THEN best_idx
    ELSE IF common_words = contenders[k].words THEN contenders[k].idx
    ELSE IF common_words = SelectSeq(contenders[k].words, LAMBDA w : w # "Regular")
    THEN BestIdx(contenders, k + 1, common_words, contenders[k].idx)
    ELSE BestIdx(contenders, k + 1, common_words, best_idx)

default_master_idx(raw_font) ==
    LET origin == OriginPosition(raw_font)
        contenders == Contenders(raw_font)
    IN  IF origin # None THEN origin[1]
        ELSE IF contenders = <<>> THEN 0
        ELSE BestIdx(contenders, 1, CommonWords(contenders), 0)

\* the origin parameters of the file: none, an Int, an Int before a String, or
\* a String holding the id of the o-th master (o = 0: of no master)
MasterInit ==
    /\ \E n \in 0..MaxMasters :
          \E names \in [1..n -> {None} \cup {Some(t) : t \in MasterNames}],
             origin \in {<<>>, <<-1>>, <<-1, 1>>} \cup {<<o>> : o \in 0..n} :
                dIn = [font_master |->
                           [i \in 1..n |-> [id |-> MasterId(i), name |-> names[i]]],
                       custom_parameters |->
                           [k \in DOMAIN origin |->
                               [name |-> "Variable Font Origin",
                                value |-> IF origin[k] = -1
                                          THEN [type |-> "Int", value |-> 1]
                                          ELSE [type |-> "String",
                                                value |-> MasterId(origin[k])]]]]
    /\ dSt = [pc |-> "call", default_master_idx |-> 0]
    /\ IdleExcept("master")

DefaultMasterIdx ==
    /\ dSt.pc = "call"
    /\ dSt' = [pc |-> "returned", default_master_idx |-> default_master_idx(dIn)]
    /\ UNCHANGED dIn
    /\ UNCHANGED notMasterVars

MasterNext == DefaultMasterIdx

SpecDefaultMaster == MasterInit /\ [][MasterNext]_vars

\* what the claims on default_master_idx speak of, read off the source file:
\* the masters that have a name, the tokens common to all their names, the
\* masters matching them exactly or once `Regular` is removed, and whether an
\* origin parameter names a master
MasterFacts ==
    LET masters == dIn.font_master
        params == SelectSeq(dIn.custom_parameters,
                            LAMBDA c : c.name = "Variable Font Origin")
        named == {i \in DOMAIN masters : masters[i].name # None}
        tokens(i) == whitespace_separated_tokens(masters[i].name[1])
        min(S) == CHOOSE i \in S : \A j \in S : i <= j
        common == IF named = {} THEN <<>>
                  ELSE SelectSeq(tokens(min(named)),
                                 LAMBDA w : \A j \in named : w \in Range(tokens(j)))
        exact == {i \in named : tokens(i) = common}
        regular == {i \in named :
                       SelectSeq(tokens(i), LAMBDA w : w # "Regular") = common}
    IN  [origin |-> {i \in DOMAIN masters :
                        /\ params # <<>>
                        /\ params[1].value.type = "String"
                        /\ params[1].value.value = masters[i].id},
         exact |-> exact,
         regular |-> regular,
         first_exact |-> IF exact = {} THEN 0 ELSE min(exact),
         first_regular |-> IF regular = {} THEN 0 ELSE min(regular)]

(***************************************************************************)
(* C5: when the `Variable Font Origin` parameter is a string equal to the  *)
(* id of a master, default_master_idx returns the index of that master,    *)
(* whatever the master names are.                                          *)
(***************************************************************************)
OriginMasterWins ==
    dSt.pc = "returned" =>
        \A i \in MasterFacts.origin : dSt.default_master_idx = i - 1

\* the origin is the id of the last master, named Bold, and the first master
\* is named Regular
OriginMasterWinsWitness ==
    /\ dSt.pc = "returned"
    /\ Len(dIn.font_master) >= 2
    /\ MasterFacts.origin = {Len(dIn.font_master)}
    /\ dIn.font_master[1].name = Some(<<"Regular">>)
    /\ dIn.font_master[Len(dIn.font_master)].name = Some(<<"Bold">>)
    /\ dSt.default_master_idx = Len(dIn.font_master) - 1

(***************************************************************************)
(* C6: with no explicit origin, when some master's name tokens equal the   *)
(* tokens common to all master names, default_master_idx returns the first *)
(* such master, even if a master before it matches once `Regular` is       *)
(* removed.                                                                *)
(***************************************************************************)
FirstExactMatchWins ==
    dSt.pc = "returned" /\ MasterFacts.origin = {} /\ MasterFacts.exact # {}
        => dSt.default_master_idx = MasterFacts.first_exact - 1

\* the master named Bold matches exactly and a master before it matches
\* without `Regular`
FirstExactMatchWinsWitness ==
    /\ dSt.pc = "returned"
    /\ MasterFacts.origin = {}
    /\ MasterFacts.exact # {}
    /\ \E j \in MasterFacts.regular : j < MasterFacts.first_exact
    /\ dIn.font_master[MasterFacts.first_exact].name = Some(<<"Bold">>)
    /\ dSt.default_master_idx = MasterFacts.first_exact - 1

(***************************************************************************)
(* C7: with no explicit origin and no exact match, default_master_idx      *)
(* returns the first master whose tokens equal the common tokens once      *)
(* `Regular` is removed, and 0 if there is none.                           *)
(***************************************************************************)
FirstRegularMatchWins ==
    dSt.pc = "returned" /\ MasterFacts.origin = {} /\ MasterFacts.exact = {}
        => dSt.default_master_idx =
               IF MasterFacts.regular = {} THEN 0 ELSE MasterFacts.first_regular - 1

(***************************************************************************)
(* glyphs-reader/src/font.rs: the user-to-design mapping of each axis.     *)
(* A RawFont is a record [format_version, units_per_em, axes,              *)
(* custom_parameters, font_master, instances]; custom parameters are the   *)
(* (name, value) list of the file.                                         *)
(***************************************************************************)
MaxInstances == 1

\* CustomParameters::get and the typed accessors built on it (axes,
\* axis_mappings, axis_locations): the first parameter of that name, if of
\* that type
typed_parameter(custom_parameters, name, type) ==
    LET named == SelectSeq(custom_parameters, LAMBDA c : c.name = name)
    IN  IF named # <<>> /\ named[1].value.type = type
        THEN Some(named[1].value.value) ELSE None

\* `as f32`: integers beyond 2^24 round to the nearest even multiple
F32(x) ==
    IF x <= 16777216 THEN x
    ELSE IF x % 2 = 0 THEN x
    ELSE IF (x - 1) % 4 = 0 THEN x - 1 ELSE x + 1

\* a push that does not look at the pairs already stored
push_pair(map, user, design) == Append(map, <<user, design>>)

\* RawAxisUserToDesignMap::add_if_new
add_if_new(map, user, design) ==
    IF \E k \in DOMAIN map : map[k][1] = user \/ map[k][2] = design THEN map
    ELSE Append(map, <<user, design>>)

\* axis_mappings.entry(axis_name).or_default().add_if_new(user, design), for
\* every item [axis_name, user, design] in turn; add_any_new is the same loop
RECURSIVE add_all(_, _)
add_all(mappings, items) ==
    IF items = <<>> THEN mappings
    ELSE LET it == Head(items)
             old == IF it.axis_name \in DOMAIN mappings
                    THEN mappings[it.axis_name] ELSE <<>>
         IN  add_all([a \in DOMAIN mappings \cup {it.axis_name} |->
                         IF a = it.axis_name THEN add_if_new(old, it.user, it.design)
                         ELSE mappings[a]],
                     Tail(items))

RECURSIVE Concat(_)
Concat(seqs) == IF seqs = <<>> THEN <<>> ELSE Head(seqs) \o Concat(Tail(seqs))

\* axis_index: the first axis the predicate holds for, from 0, or None
axis_index(from, field, value) ==
    LET hits == {i \in DOMAIN from.axes : from.axes[i][field] = value}
    IN  IF hits = {} THEN None
        ELSE Some((CHOOSE i \in hits : \A j \in hits : i <= j) - 1)

user_to_design_from_axis_mapping(from) ==
    LET mappings == typed_parameter(from.custom_parameters, "Axis Mappings", "AxesMappings")
        items(mapping) ==
            LET idx == axis_index(from, "tag", mapping.tag)
            IN  IF idx = None THEN <<>>
                ELSE [k \in DOMAIN mapping.user_to_design |->
                         [axis_name |-> from.axes[idx[1] + 1].name,
                          user |-> F32(mapping.user_to_design[k][1]),
                          design |-> F32(mapping.user_to_design[k][2])]]
    IN  IF mappings = None THEN None
        ELSE Some(add_all(<<>>, Concat([m \in DOMAIN mappings[1] |-> items(mappings[1][m])])))

\* the result is [panic, value]: the map, None, or a panic on an axis name
\* that is no axis or on a master with too few axes_values
user_to_design_from_axis_location(from) ==
    LET locations(m) == typed_parameter(m.custom_parameters, "Axis Location", "AxisLocations")
        with == {i \in DOMAIN from.font_master : locations(from.font_master[i]) # None}
        bad(master, axis_location) ==
            LET idx == axis_index(from, "name", axis_location.axis_name)
            IN  idx = None \/ idx[1] + 1 > Len(master.axes_values)
        items(master) ==
            LET ls == locations(master)[1]
            IN  [k \in DOMAIN ls |->
                    [axis_name |-> ls[k].axis_name,
                     user |-> F32(ls[k].location),
                     design |-> F32(master.axes_values[
                                   axis_index(from, "name", ls[k].axis_name)[1] + 1])]]
    IN  IF Cardinality(with) # Len(from.font_master)
        THEN [panic |-> FALSE, value |-> None]
        ELSE IF \E i \in with : \E k \in DOMAIN locations(from.font_master[i])[1] :
                    bad(from.font_master[i], locations(from.font_master[i])[1][k])
        THEN [panic |-> TRUE, value |-> None]
        ELSE [panic |-> FALSE,
              value |-> Some(add_all(<<>>,
                  Concat([i \in DOMAIN from.font_master |-> items(from.font_master[i])])))]

\* WidthClass::try_from(..).to_percent(), 100 for a class outside 1..9; the
\* classes 2, 4 and 6, whose percents are not whole, are not drawn
width_class_percent(width_class) ==
    CASE width_class = 1 -> 50
      [] width_class = 3 -> 75
      [] width_class = 5 -> 100
      [] width_class = 7 -> 125
      [] width_class = 8 -> 150
      [] width_class = 9 -> 200
      [] width_class \notin 1..9 -> 100

\* add_mapping_if_new, as the items it adds
add_mapping_if_new(axes, axis_tag, axes_values, value) ==
    LET hits == {i \in DOMAIN axes : axes[i].tag = axis_tag}
        idx == CHOOSE i \in hits : \A j \in hits : i <= j
    IN  IF hits = {} \/ idx > Len(axes_values) THEN <<>>
        ELSE <<[axis_name |-> axes[idx].name, user |-> F32(value),
                design |-> F32(axes_values[idx])]>>

\* Instance::new, with RawInstance::is_active
InstanceNew(axes, value) ==
    LET unwrap_or(a, dflt) == IF a # None THEN a[1] ELSE dflt
    IN  [active |-> unwrap_or(value.exports, 1) # 0 /\ unwrap_or(value.active, 1) # 0,
         type_ |-> unwrap_or(value.type_, "Single"),
         axis_mappings |->
            add_all(<<>>,
                add_mapping_if_new(axes, "wght", value.axes_values,
                    unwrap_or(value.weight_class, 400))
                \o add_mapping_if_new(axes, "wdth", value.axes_values,
                    IF value.width_class = None THEN 100
                    ELSE width_class_percent(value.width_class[1]))),
         axes_values |-> value.axes_values]

\* the mappings of the instances left out
add_no_instance_mappings(result, instances) == result

\* instance.axis_mappings is walked in the order of the axis names
add_instance_mappings_if_new(result, instances) ==
    LET SortedAxisNames(S) ==
            SelectSeq(<<"Custom", "Italic", "Optical Size", "Slant", "Weight", "Width">>,
                      LAMBDA n : n \in S)
        used == SelectSeq(instances, LAMBDA i : i.active /\ i.type_ = "Single")
        items(i) == Concat([a \in DOMAIN SortedAxisNames(DOMAIN i.axis_mappings) |->
                        LET name == SortedAxisNames(DOMAIN i.axis_mappings)[a]
                        IN  [k \in DOMAIN i.axis_mappings[name] |->
                                [axis_name |-> name,
                                 user |-> i.axis_mappings[name][k][1],
                                 design |-> i.axis_mappings[name][k][2]]]])
    IN  add_all(result, Concat([n \in DOMAIN used |-> items(used[n])]))

add_master_mappings_if_new(result, from) ==
    LET items(master) ==
            [k \in 1..(IF Len(from.axes) < Len(master.axes_values)
                       THEN Len(from.axes) ELSE Len(master.axes_values)) |->
                [axis_name |-> from.axes[k].name,
                 user |-> F32(master.axes_values[k]),
                 design |-> F32(master.axes_values[k])]]
    IN  add_all(result,
                Concat([i \in DOMAIN from.font_master |-> items(from.font_master[i])]))

\* the three ways RawUserToDesignMapping::new starts from, and what follows;
\* the result is [panic, value]
RawUserToDesignMappingNew(from, instances) ==
    LET from_axis_mapping == user_to_design_from_axis_mapping(from)
        from_axis_location == user_to_design_from_axis_location(from)
        result == IF from_axis_mapping # None THEN from_axis_mapping[1]
                  ELSE IF from_axis_location.value # None THEN from_axis_location.value[1]
                  ELSE <<>>
        add_instance_mappings == from_axis_mapping = None
        with_instances == IF add_instance_mappings
                          THEN add_instance_mappings_if_new(result, instances)
                          ELSE result
    IN  IF from_axis_location.panic THEN [panic |-> TRUE, value |-> <<>>]
        ELSE [panic |-> FALSE, value |-> add_master_mappings_if_new(with_instances, from)]

(***************************************************************************)
(* glyphs-reader/src/font.rs: v2_to_v3_axes and TryFrom<RawFont> for Font  *)
(***************************************************************************)
MaxExplicitAxes == 4

MaxAxesMasters == 2

\* the axes a source may name
AxisPool ==
    <<[name |-> "Weight", tag |-> "wght"], [name |-> "Width", tag |-> "wdth"],
      [name |-> "Custom", tag |-> "XXXX"], [name |-> "Optical Size", tag |-> "opsz"],
      [name |-> "Slant", tag |-> "slnt"], [name |-> "Italic", tag |-> "ital"]>>

\* defaults that stop after the second axis
DefaultAxesShort == SubSeq(AxisPool, 1, 2)

\* the axes pushed when the source names none
DefaultAxes == SubSeq(AxisPool, 1, 3)

\* value_for_nth_axis that never reads the master's fields
value_for_nth_axis_unset(self, nth_axis) ==
    [ok |-> nth_axis <= 2, value |-> IF nth_axis = 2 THEN 0 ELSE 100]

\* GlyphsV2OrderedAxes::value_for_nth_axis, the axis counted from 0
value_for_nth_axis(self, nth_axis) ==
    LET or(a, b) == IF a # None THEN a ELSE b
        unwrap_or(a, dflt) == IF a # None THEN a[1] ELSE dflt
    IN  CASE nth_axis = 0 ->
               [ok |-> TRUE,
                value |-> unwrap_or(or(self.weight_value, self.interpolation_weight), 100)]
          [] nth_axis = 1 ->
               [ok |-> TRUE,
                value |-> unwrap_or(or(self.width_value, self.interpolation_width), 100)]
          [] nth_axis = 2 -> [ok |-> TRUE, value |-> unwrap_or(self.custom_value, 0)]
          [] OTHER -> [ok |-> FALSE, value |-> 0]

\* GlyphsV2OrderedAxes::axis_values
axis_values(self, axes) ==
    [ok |-> \A n \in DOMAIN axes : value_for_nth_axis(self, n - 1).ok,
     values |-> [n \in DOMAIN axes |-> value_for_nth_axis(self, n - 1).value]]

\* RawFont::v2_to_v3_axes: the font lifted, or the structural error
v2_to_v3_axes(self) ==
    LET v2_axes == typed_parameter(self.custom_parameters, "Axes", "Axes")
        pushed == IF v2_axes # None THEN self.axes \o v2_axes[1] ELSE self.axes
        axes == IF pushed = <<>> THEN DefaultAxes ELSE pushed
        lift(list) == [i \in DOMAIN list |->
                          [list[i] EXCEPT !.axes_values = axis_values(list[i], axes).values]]
    IN  IF Len(axes) > 3
             \/ (\E i \in DOMAIN self.font_master : ~axis_values(self.font_master[i], axes).ok)
             \/ (\E i \in DOMAIN self.instances : ~axis_values(self.instances[i], axes).ok)
        THEN [ok |-> FALSE, error |-> "StructuralError", font |-> self]
        ELSE [ok |-> TRUE, error |-> "",
              font |-> [self EXCEPT !.axes = axes,
                                    !.font_master = lift(self.font_master),
                                    !.instances = lift(self.instances)]]

\* TryFrom<RawFont> for Font, after the lift: the Font, an error or a panic
try_from(from) ==
    LET instances == [i \in DOMAIN from.instances |-> InstanceNew(from.axes, from.instances[i])]
        axis_mappings == RawUserToDesignMappingNew(from, instances)
    IN  IF axis_mappings.panic THEN [result |-> "panic"]
        ELSE IF from.units_per_em = None THEN [result |-> "Err", error |-> "NoUnitsPerEm"]
        ELSE [result |-> "Ok",
              font |-> [units_per_em |-> from.units_per_em[1],
                        axes |-> from.axes,
                        masters |-> [i \in DOMAIN from.font_master |->
                            [id |-> from.font_master[i].id,
                             name |-> IF from.font_master[i].name = None THEN <<>>
                                      ELSE from.font_master[i].name[1],
                             axes_values |-> from.font_master[i].axes_values]],
                        default_master_idx |-> default_master_idx(from),
                        axis_mappings |-> axis_mappings.value,
                        instances |-> instances]]

\* a master of a source: the axis fields of version 2, the axesValues of
\* version 3, its custom parameters
RawMaster(n, weight, width, custom, axes_values, parameters) ==
    [id |-> MasterId(n), name |-> Some(<<"Regular">>),
     weight_value |-> weight, interpolation_weight |-> None,
     width_value |-> width, interpolation_width |-> None,
     custom_value |-> custom, axes_values |-> axes_values,
     custom_parameters |-> parameters]

\* the sources: of version 2 with or without an Axes parameter, of version 3
\* with axes; the axes are a run of at most MaxExplicitAxes axes of the pool
AxesInit ==
    /\ LET AxisLists ==
            {SubSeq(AxisPool, a, b) : a \in 1..Len(AxisPool), b \in 0..Len(AxisPool)}
                \cap SeqsUpTo(Range(AxisPool), MaxExplicitAxes)
       IN
       \E n \in 0..MaxAxesMasters, upem \in {None, Some(1000)} :
          \/ \E explicit \in {None} \cup {Some(l) : l \in AxisLists},
                fields \in [1..n -> [1..3 -> BOOLEAN]] :
                aIn = [format_version |-> 2, units_per_em |-> upem, axes |-> <<>>,
                       custom_parameters |->
                           IF explicit = None THEN <<>>
                           ELSE <<[name |-> "Axes",
                                   value |-> [type |-> "Axes", value |-> explicit[1]]]>>,
                       font_master |-> [i \in 1..n |->
                           RawMaster(i,
                               IF fields[i][1] THEN Some(400) ELSE None,
                               IF fields[i][2] THEN Some(75) ELSE None,
                               IF fields[i][3] THEN Some(12) ELSE None,
                               <<>>, <<>>)],
                       instances |-> <<>>]
          \/ \E axes \in AxisLists, lens \in [1..n -> 0..3], located \in [1..n -> BOOLEAN] :
                aIn = [format_version |-> 3, units_per_em |-> upem, axes |-> axes,
                       custom_parameters |-> <<>>,
                       font_master |-> [i \in 1..n |->
                           RawMaster(i, None, None, None,
                               SubSeq(<<400, 75, 12>>, 1, lens[i]),
                               IF located[i] /\ axes # <<>>
                               THEN <<[name |-> "Axis Location",
                                       value |-> [type |-> "AxisLocations",
                                                  value |-> <<[axis_name |-> axes[Len(axes)].name,
                                                               location |-> 100]>>]]>>
                               ELSE <<>>)],
                       instances |-> <<>>]
    /\ aSt = [pc |-> "start", from |-> aIn]
    /\ IdleExcept("axes")

\* try_from of a version-2 source: from.v2_to_v3()
TryFromV2ToV3 ==
    /\ aSt.pc = "start"
    /\ aIn.format_version < 3
    /\ LET lifted == v2_to_v3_axes(aIn)
       IN  aSt' = IF lifted.ok THEN [pc |-> "lifted", from |-> lifted.font]
                  ELSE [pc |-> "done", from |-> lifted.font,
                        out |-> [result |-> "Err", error |-> lifted.error]]
    /\ UNCHANGED aIn
    /\ UNCHANGED notAxesVars

\* try_from of a version-3 source: no lift
TryFromV3 ==
    /\ aSt.pc = "start"
    /\ aIn.format_version >= 3
    /\ aSt' = [pc |-> "lifted", from |-> aIn]
    /\ UNCHANGED aIn
    /\ UNCHANGED notAxesVars

\* the rest of try_from
TryFromConvert ==
    /\ aSt.pc = "lifted"
    /\ aSt' = [pc |-> "done", from |-> aSt.from, out |-> try_from(aSt.from)]
    /\ UNCHANGED aIn
    /\ UNCHANGED notAxesVars

AxesNext ==
    \/ TryFromV2ToV3
    \/ TryFromV3
    \/ TryFromConvert

SpecAxes == AxesInit /\ [][AxesNext]_vars

\* the explicit axes of the source under conversion, <<>> when it names none
ExplicitAxes ==
    LET v2_axes == typed_parameter(aIn.custom_parameters, "Axes", "Axes")
    IN  IF v2_axes = None THEN <<>> ELSE v2_axes[1]

\* the lift of a version-2 source has run and refused the source
LiftFailed ==
    /\ aSt.pc = "done"
    /\ aSt.out.result = "Err"
    /\ aSt.out.error = "StructuralError"

\* the lift of a version-2 source has run and gone through
Lifted ==
    /\ aIn.format_version < 3
    /\ aSt.pc # "start"
    /\ ~LiftFailed

\* the number of axis fields the masters carry: the last of weight, width,
\* custom that some master has a value for
AxisFieldsCarried ==
    LET has(m, k) == CASE k = 1 -> m.weight_value # None
                       [] k = 2 -> m.width_value # None
                       [] OTHER -> m.custom_value # None
        carried == {k \in 1..3 : \E i \in DOMAIN aIn.font_master : has(aIn.font_master[i], k)}
    IN  IF carried = {} THEN 0 ELSE CHOOSE k \in carried : \A j \in carried : j <= k

\* C8 as stated: a version-2 source's lift uses the explicit Axes in order
\* when the parameter is present, otherwise the default list truncated to
\* the number of axis fields the masters carry, and fails exactly when more
\* than three axes are implied
LiftTruncatesDefaultAxes ==
    (aIn.format_version < 3 /\ aSt.pc # "start") =>
        /\ LiftFailed <=> Len(ExplicitAxes) > 3
        /\ Lifted =>
              aSt.from.axes =
                  IF typed_parameter(aIn.custom_parameters, "Axes", "Axes") # None
                  THEN ExplicitAxes
                  ELSE SubSeq(<<[name |-> "Weight", tag |-> "wght"],
                                [name |-> "Width", tag |-> "wdth"],
                                [name |-> "Custom", tag |-> "XXXX"]>>,
                              1, AxisFieldsCarried)

\* C8, amended: a version-2 source's lift uses the explicit Axes in order
\* when the parameter names at least one axis, otherwise all three default
\* axes whatever fields the masters carry; it fails exactly when the
\* parameter names more than three axes; each master gets one value per
\* axis, from its weight, width and custom fields or 100, 100, 0
LiftUsesAllDefaultAxes ==
    (aIn.format_version < 3 /\ aSt.pc # "start") =>
        /\ LiftFailed <=> Len(ExplicitAxes) > 3
        /\ Lifted =>
              /\ aSt.from.axes =
                    IF ExplicitAxes # <<>> THEN ExplicitAxes
                    ELSE <<[name |-> "Weight", tag |-> "wght"],
                           [name |-> "Width", tag |-> "wdth"],
                           [name |-> "Custom", tag |-> "XXXX"]>>
              /\ \A i \in DOMAIN aIn.font_master :
                    LET m == aIn.font_master[i]
                        expected == <<IF m.weight_value # None THEN m.weight_value[1] ELSE 100,
                                      IF m.width_value # None THEN m.width_value[1] ELSE 100,
                                      IF m.custom_value # None THEN m.custom_value[1] ELSE 0>>
                    IN  aSt.from.font_master[i].axes_values =
                            SubSeq(expected, 1, Len(aSt.from.axes))

\* a source without Axes whose only master carries just a weight is lifted
\* to three axes, the width and custom values defaulted
LiftUsesAllDefaultAxesWitness ==
    /\ Lifted
    /\ aSt.pc = "lifted"
    /\ typed_parameter(aIn.custom_parameters, "Axes", "Axes") = None
    /\ Len(aIn.font_master) = 1
    /\ AxisFieldsCarried = 1
    /\ Len(aSt.from.axes) = 3
    /\ aSt.from.font_master[1].axes_values = <<400, 100, 0>>

\* C9 as stated: in every Font that try_from returns, each master's
\* axes_values has exactly axes.len() entries
MasterAxesValuesMatchAxes ==
    (aSt.pc = "done" /\ aSt.out.result = "Ok") =>
        \A i \in DOMAIN aSt.out.font.masters :
            Len(aSt.out.font.masters[i].axes_values) = Len(aSt.out.font.axes)

(***************************************************************************)
(* glyphs-reader/src/font.rs: RawUserToDesignMapping::new, called by       *)
(* try_from with the instances it has built                                *)
(***************************************************************************)
MaxMappingMasters == 2

\* the sources: Axis Mappings absent, an empty table, a table for the
\* weight, for both axes, for a tag that is no axis of the font; each master
\* with or without an Axis Location for both axes; the instances exported
\* or not, single or variable, with or without a weight class
MappingInit ==
    /\ LET table(rows) == <<[name |-> "Axis Mappings",
                             value |-> [type |-> "AxesMappings", value |-> rows]]>>
           wght == [tag |-> "wght", user_to_design |-> <<<<400, 80>>, <<700, 120>>>>]
           wdth == [tag |-> "wdth", user_to_design |-> <<<<100, 100>>>>]
           opsz == [tag |-> "opsz", user_to_design |-> <<<<12, 12>>>>]
           AxisMappingsParameters ==
               {<<>>, table(<<>>), table(<<wght>>), table(<<wght, wdth>>), table(<<opsz>>)}
           AxisLocationParameters ==
               {<<>>,
                <<[name |-> "Axis Location",
                   value |-> [type |-> "AxisLocations",
                              value |-> <<[axis_name |-> "Weight", location |-> 300],
                                          [axis_name |-> "Width", location |-> 100]>>]]>>}
           RawInstances ==
               {[exports |-> e, active |-> None, type_ |-> t,
                 weight_class |-> w, width_class |-> Some(3), axes_values |-> v] :
                   e \in {None, Some(0)}, t \in {None, Some("Variable")},
                   w \in {None, Some(700)}, v \in {<<700, 75>>, <<90, 100>>}}
       IN
       \E parameters \in AxisMappingsParameters,
          n \in 0..MaxMappingMasters,
          instances \in SeqsUpTo(RawInstances, MaxInstances) :
          \E values \in [1..n -> {<<400, 100>>, <<700, 100>>}],
             located \in [1..n -> AxisLocationParameters] :
                uIn = [format_version |-> 3, units_per_em |-> Some(1000),
                       axes |-> SubSeq(AxisPool, 1, 2),
                       custom_parameters |-> parameters,
                       font_master |-> [i \in 1..n |->
                           RawMaster(i, None, None, None, values[i], located[i])],
                       instances |-> instances]
    /\ uSt = [pc |-> "instances", instances |-> <<>>, axis_mappings |-> <<>>]
    /\ IdleExcept("mapping")

\* try_from: from.instances.iter().map(|ri| Instance::new(&axes, ri))
MappingInstances ==
    /\ uSt.pc = "instances"
    /\ uSt' = [uSt EXCEPT !.pc = "mapping",
                          !.instances = [i \in DOMAIN uIn.instances |->
                                            InstanceNew(uIn.axes, uIn.instances[i])]]
    /\ UNCHANGED uIn
    /\ UNCHANGED notMappingVars

\* try_from: RawUserToDesignMapping::new(&from, &instances)
MappingNew ==
    /\ uSt.pc = "mapping"
    /\ LET axis_mappings == RawUserToDesignMappingNew(uIn, uSt.instances)
       IN  uSt' = [uSt EXCEPT !.pc = IF axis_mappings.panic THEN "panic" ELSE "done",
                              !.axis_mappings = axis_mappings.value]
    /\ UNCHANGED uIn
    /\ UNCHANGED notMappingVars

MappingNext ==
    \/ MappingInstances
    \/ MappingNew

SpecMapping == MappingInit /\ [][MappingNext]_vars

\* the pairs a mapping holds for an axis
PairsOf(mappings, axis_name) ==
    IF axis_name \in DOMAIN mappings THEN mappings[axis_name] ELSE <<>>

\* the instances whose mappings count: active and single
UsedInstances ==
    SelectSeq(uSt.instances, LAMBDA i : i.active /\ i.type_ = "Single")

\* the pairs of one axis were it resolved on its own: those of the first of
\* Axis Mappings, Axis Location (every master having it) and the active
\* instances that has the axis, then the masters' coordinates
ResolvedAlone(axis_name) ==
    LET from_axis_mapping == user_to_design_from_axis_mapping(uIn)
        from_axis_location == user_to_design_from_axis_location(uIn).value
        from_instances ==
            add_all(<<>>, Concat([n \in DOMAIN UsedInstances |->
                [k \in DOMAIN PairsOf(UsedInstances[n].axis_mappings, axis_name) |->
                    [axis_name |-> axis_name,
                     user |-> UsedInstances[n].axis_mappings[axis_name][k][1],
                     design |-> UsedInstances[n].axis_mappings[axis_name][k][2]]]]))
        first == IF from_axis_mapping # None /\ axis_name \in DOMAIN from_axis_mapping[1]
                 THEN from_axis_mapping[1][axis_name]
                 ELSE IF from_axis_location # None
                         /\ axis_name \in DOMAIN from_axis_location[1]
                 THEN from_axis_location[1][axis_name]
                 ELSE PairsOf(from_instances, axis_name)
    IN  PairsOf(add_master_mappings_if_new([a \in {axis_name} |-> first], uIn), axis_name)

\* C10 as stated: each axis is resolved on its own, its pairs those of the
\* first source present for that axis among Axis Mappings, Axis Location
\* and the active instances, with nothing of a later source mixed in but
\* the masters' coordinates as identity pairs
EachAxisResolvedAlone ==
    uSt.pc = "done" =>
        \A k \in DOMAIN uIn.axes :
            PairsOf(uSt.axis_mappings, uIn.axes[k].name) = ResolvedAlone(uIn.axes[k].name)

\* C10, amended: one source starts every axis: the Axis Mappings table when
\* the parameter is there, else Axis Location when every master has it,
\* else nothing.  Without the Axis Mappings parameter the pairs of the
\* active single instances are added to every axis, then always the
\* masters' coordinates as identity pairs; a pair is added unless its user
\* or its design value is already in the axis
WholeFontResolved ==
    uSt.pc = "done" =>
        LET from_axis_mapping == user_to_design_from_axis_mapping(uIn)
            from_axis_location == user_to_design_from_axis_location(uIn).value
            start == IF from_axis_mapping # None THEN from_axis_mapping[1]
                     ELSE IF from_axis_location # None THEN from_axis_location[1]
                     ELSE <<>>
            of_instances(axis_name) ==
                IF from_axis_mapping # None THEN {}
                ELSE UNION {Range(PairsOf(UsedInstances[n].axis_mappings, axis_name)) :
                               n \in DOMAIN UsedInstances}
            of_masters(k) ==
                {<<uIn.font_master[i].axes_values[k], uIn.font_master[i].axes_values[k]>> :
                    i \in DOMAIN uIn.font_master}
        IN  \A k \in DOMAIN uIn.axes :
                LET axis_name == uIn.axes[k].name
                    pairs == PairsOf(uSt.axis_mappings, axis_name)
                    first == PairsOf(start, axis_name)
                IN  /\ Len(first) <= Len(pairs)
                    /\ SubSeq(pairs, 1, Len(first)) = first
                    /\ Range(pairs) \subseteq
                          Range(first) \cup of_instances(axis_name) \cup of_masters(k)
                    /\ \A p \in of_instances(axis_name) \cup of_masters(k) :
                          \E q \in Range(pairs) : q[1] = p[1] \/ q[2] = p[2]
                    /\ \A a, b \in DOMAIN pairs :
                          a # b => pairs[a][1] # pairs[b][1] /\ pairs[a][2] # pairs[b][2]

\* every master has an Axis Location, there is no Axis Mappings, and the
\* weight axis holds the pair of the location and, after it, the pair of an
\* active instance
WholeFontResolvedWitness ==
    /\ uSt.pc = "done"
    /\ user_to_design_from_axis_mapping(uIn) = None
    /\ user_to_design_from_axis_location(uIn).value # None
    /\ Len(uIn.font_master) = 1
    /\ Len(UsedInstances) = 1
    /\ PairsOf(uSt.axis_mappings, "Weight") = <<<<300, 400>>, <<700, 700>>>>

\* C11 as stated: in the mapping try_from stores, the pairs of every axis
\* are monotonic: of two pairs the one with the smaller user value has no
\* larger design value
AxisMapsMonotonic ==
    uSt.pc = "done" =>
        \A k \in DOMAIN uIn.axes :
            LET pairs == PairsOf(uSt.axis_mappings, uIn.axes[k].name)
            IN  \A a, b \in DOMAIN pairs :
                    pairs[a][1] < pairs[b][1] => pairs[a][2] <= pairs[b][2]

\* the version-3 source with the content of the version-2 source under
\* conversion: the axes are a top-level list, each master's positions are
\* its axesValues, in parallel with the axes, and the version-2 parameter
\* and fields are gone
NativeV3Form ==
    LET axes == IF ExplicitAxes # <<>> THEN ExplicitAxes
                ELSE <<[name |-> "Weight", tag |-> "wght"],
                       [name |-> "Width", tag |-> "wdth"],
                       [name |-> "Custom", tag |-> "XXXX"]>>
        positions(m) == <<IF m.weight_value # None THEN m.weight_value[1] ELSE 100,
                          IF m.width_value # None THEN m.width_value[1] ELSE 100,
                          IF m.custom_value # None THEN m.custom_value[1] ELSE 0>>
    IN  [format_version |-> 3,
         units_per_em |-> aIn.units_per_em,
         axes |-> axes,
         custom_parameters |-> SelectSeq(aIn.custom_parameters, LAMBDA c : c.name # "Axes"),
         font_master |-> [i \in DOMAIN aIn.font_master |->
             [aIn.font_master[i] EXCEPT !.weight_value = None, !.width_value = None,
                                        !.custom_value = None,
                                        !.axes_values = SubSeq(positions(aIn.font_master[i]),
                                                               1, Len(axes))]],
         instances |-> aIn.instances]

OnlyCategorizedGlyphsKeepAnchors ==
    mPc \in {"build", "done"} =>
        /\ DOMAIN mAnchorLists \subseteq Range(mOrder)
        /\ DOMAIN mClasses # {} =>
              \A n \in DOMAIN mAnchorLists :
                  /\ n \in DOMAIN mClasses
                  /\ mClasses[n] \in {"Base", "Mark", "Ligature"}

\* the anchors of a kind and group that a glyph of the input carries
InputAnchors(glyph_name, kind, group) ==
    {a \in UNION {Range(mAnchors[i].anchors) :
                     i \in {j \in DOMAIN mAnchors : mAnchors[j].glyph_name = glyph_name}} :
        a.kind = kind /\ a.group = group}

\* C14: every mark-to-base lookup built has a base and a mark; its marks
\* are glyphs of GDEF class Mark with their `_group` anchor, its bases are
\* glyphs that are no mark glyphs and have no class other than Base, with
\* their `group` anchor; a group has at most one lookup
MarkBaseLookupsHaveBothSides ==
    mPc = "done" =>
        /\ \A i \in DOMAIN mMarkBase :
              LET lookup == mMarkBase[i]
                  builder == lookup.subtables[1]
                  name(id) == mOrder[id + 1]
                  is_mark_glyph(n) ==
                      /\ n \in DOMAIN mClasses
                      /\ mClasses[n] = "Mark"
                      /\ n \in DOMAIN mAnchorLists
                      /\ \E k \in DOMAIN mAnchorLists[n] : mAnchorLists[n][k].kind = "Mark"
              IN  /\ Len(lookup.subtables) = 1
                  /\ DOMAIN builder.marks # {}
                  /\ DOMAIN builder.bases # {}
                  /\ \A id \in DOMAIN builder.marks :
                        /\ is_mark_glyph(name(id))
                        /\ builder.marks[id].class = lookup.group
                        /\ InputAnchors(name(id), "Mark", lookup.group) # {}
                        /\ builder.marks[id].anchor.glyph = name(id)
                        /\ builder.marks[id].anchor.kind = "Mark"
                        /\ builder.marks[id].anchor.group = lookup.group
                  /\ \A id \in DOMAIN builder.bases :
                        /\ ~is_mark_glyph(name(id))
                        /\ name(id) \in DOMAIN mClasses => mClasses[name(id)] = "Base"
                        /\ DOMAIN builder.bases[id] = {lookup.group}
                        /\ InputAnchors(name(id), "Base", lookup.group) # {}
                        /\ builder.bases[id][lookup.group].glyph = name(id)
                        /\ builder.bases[id][lookup.group].kind = "Base"
        /\ \A i, j \in DOMAIN mMarkBase :
              mMarkBase[i].group = mMarkBase[j].group => i = j

\* a mark-to-base lookup was built while another group, which has marks
\* but no base that counts, got none
MarkBaseLookupsHaveBothSidesWitness ==
    /\ mPc = "done"
    /\ Len(mMarkBase) = 1
    /\ \E g \in Range(GroupNames) :
          /\ g # mMarkBase[1].group
          /\ \E n \in mMarkGlyphs :
                \E k \in DOMAIN mAnchorLists[n] :
                    mAnchorLists[n][k] = [kind |-> "Mark", group |-> g]

\* C16 as stated: a variation solve that fails for one anchor skips only
\* the lookup holding that anchor: the build still succeeds and every group
\* with a base and a mark whose anchors all resolve still has its lookup
SolveFailureSkipsOneLookup ==
    LET groups == make_mark_to_base_groups(mAnchorLists, mMarkGlyphs, mClasses)
        fails(g) == \E k \in DOMAIN groups[g].marks \cup DOMAIN groups[g].bases :
                        \/ k \in DOMAIN groups[g].marks
                           /\ groups[g].marks[k][1] \in mSolveFails
                        \/ k \in DOMAIN groups[g].bases
                           /\ groups[g].bases[k][1] \in mSolveFails
    IN  mPc \in {"done", "err"} =>
            /\ mPc = "done"
            /\ \A g \in DOMAIN groups :
                  (groups[g].marks # <<>> /\ groups[g].bases # <<>> /\ ~fails(g)) =>
                      \E i \in DOMAIN mMarkBase : mMarkBase[i].group = g

(***************************************************************************)
(* fontbe/src/features/marks.rs: impl FeatureProvider for FeaRsMarks       *)
(***************************************************************************)
MaxLookups == 2

\* fea-rs FeatureBuilder::add_lookup: the lookup becomes the next lookup of
\* the builder, which returns its id
add_lookup(builder, lookup) ==
    [id |-> Len(builder.lookups),
     builder |-> [builder EXCEPT !.lookups = Append(builder.lookups, lookup)]]

\* the lookups registered under DFLT/dflt whatever the feature code names
add_to_DFLT_only(builder, feature_tag, lookups) ==
    [builder EXCEPT !.features =
        [key \in DOMAIN builder.features \cup {<<feature_tag, "DFLT", "dflt">>} |->
            IF key = <<feature_tag, "DFLT", "dflt">> THEN lookups
            ELSE builder.features[key]]]

\* fea-rs FeatureBuilder::add_to_default_language_systems: the lookups are
\* registered for the feature under each `languagesystem` of the feature
\* code, under DFLT/dflt when it has none
add_to_default_language_systems(builder, feature_tag, lookups) ==
    LET systems == IF builder.language_systems = <<>> THEN {<<"DFLT", "dflt">>}
                   ELSE Range(builder.language_systems)
        keys == {<<feature_tag, sys[1], sys[2]>> : sys \in systems}
    IN  [builder EXCEPT !.features =
            [key \in DOMAIN builder.features \cup keys |->
                (IF key \in DOMAIN builder.features THEN builder.features[key] ELSE <<>>)
                    \o (IF key \in keys THEN lookups ELSE <<>>)]]

\* `for mark_base in self.mark_base.iter() { ..push(builder.add_lookup(..)) }`
RECURSIVE AddLookups(_, _, _)
AddLookups(builder, lookups, ids) ==
    IF lookups = <<>> THEN [builder |-> builder, ids |-> ids]
    ELSE LET added == add_lookup(builder, Head(lookups))
         IN  AddLookups(added.builder, Tail(lookups), Append(ids, added.id))

\* FeaRsMarks::add_features
add_features(self, builder) ==
    LET mark_base == AddLookups(builder, self.mark_base, <<>>)
        mark_mark == AddLookups(mark_base.builder, self.mark_mark, <<>>)
        with_mark == IF mark_base.ids # <<>>
                     THEN add_to_default_language_systems(mark_mark.builder, "mark",
                                                          mark_base.ids)
                     ELSE mark_mark.builder
    IN  IF mark_mark.ids # <<>>
        THEN add_to_default_language_systems(with_mark, "mkmk", mark_mark.ids)
        ELSE with_mark

\* the FeaRsMarks handed over: up to MaxLookups lookups of each kind, named
\* by their group; the feature code has no languagesystem, one, or two, and
\* the builder holds the lookups of the feature code, if any
FeaturesInit ==
    /\ \E mark_base \in SeqsUpTo({"top", "bottom"}, MaxLookups),
          mark_mark \in SeqsUpTo({"top", "bottom"}, MaxLookups),
          language_systems \in {<<>>, <<<<"DFLT", "dflt">>>>, <<<<"latn", "dflt">>>>,
                                <<<<"DFLT", "dflt">>, <<"latn", "dflt">>>>},
          user \in SeqsUpTo({"user"}, 1) :
          /\ fIn = [mark_base |-> [i \in DOMAIN mark_base |->
                                      [kind |-> "MarkToBase", group |-> mark_base[i]]],
                    mark_mark |-> [i \in DOMAIN mark_mark |->
                                      [kind |-> "MarkToMark", group |-> mark_mark[i]]]]
          /\ fSt = [pc |-> "call",
                    builder |-> [language_systems |-> language_systems,
                                 lookups |-> [i \in DOMAIN user |->
                                                 [kind |-> "User", group |-> user[i]]],
                                 features |-> <<>>]]
    /\ IdleExcept("features")

\* the feature compiler calls the provider
FeaRsMarksAddFeatures ==
    /\ fSt.pc = "call"
    /\ fSt' = [pc |-> "done", builder |-> add_features(fIn, fSt.builder)]
    /\ UNCHANGED fIn
    /\ UNCHANGED notFeaturesVars

SpecFeatures == FeaturesInit /\ [][FeaRsMarksAddFeatures]_vars

\* C15: add_features adds each mark-to-base and then each mark-to-mark
\* lookup as a lookup of its own; the mark-to-base lookups are registered
\* under `mark` and the mark-to-mark lookups under `mkmk` for exactly the
\* language systems of the feature code (DFLT/dflt when it names none), and
\* a feature without lookups is not registered
MarkFeaturesRegistered ==
    fSt.pc = "done" =>
        LET before == Len(fSt.builder.lookups) - Len(fIn.mark_base) - Len(fIn.mark_mark)
            systems == IF fSt.builder.language_systems = <<>> THEN {<<"DFLT", "dflt">>}
                       ELSE Range(fSt.builder.language_systems)
            registered(tag) == {<<tag, sys[1], sys[2]>> : sys \in systems}
        IN  /\ before >= 0
            /\ SubSeq(fSt.builder.lookups, before + 1, Len(fSt.builder.lookups))
                   = fIn.mark_base \o fIn.mark_mark
            /\ DOMAIN fSt.builder.features =
                   (IF fIn.mark_base # <<>> THEN registered("mark") ELSE {})
                       \cup (IF fIn.mark_mark # <<>> THEN registered("mkmk") ELSE {})
            /\ \A key \in DOMAIN fSt.builder.features :
                   fSt.builder.features[key] =
                       IF key[1] = "mark"
                       THEN [i \in DOMAIN fIn.mark_base |-> before + i - 1]
                       ELSE [i \in DOMAIN fIn.mark_mark |->
                                before + Len(fIn.mark_base) + i - 1]

\* with `languagesystem latn dflt;` and a mark-to-base lookup, `mark` is
\* registered under latn/dflt and not under DFLT/dflt, and there is no mkmk
MarkFeaturesRegisteredWitness ==
    /\ fSt.pc = "done"
    /\ fSt.builder.language_systems = <<<<"latn", "dflt">>>>
    /\ fIn.mark_base # <<>>
    /\ fIn.mark_mark = <<>>
    /\ DOMAIN fSt.builder.features = {<<"mark", "latn", "dflt">>}

(***************************************************************************)
(* fontbe/src/features/marks.rs: impl MarkAttachmentBuilder, add_mark on a *)
(* builder that already holds marks                                        *)
(***************************************************************************)
\* a builder holding some of the glyphs 0..2 as marks of a class each, and
\* the mark to add
BuilderInit ==
    /\ \E held \in SUBSET (0..2), id \in 0..2, group \in Range(GroupNames) :
          \E classes \in [held -> Range(GroupNames)] :
              bIn = [builder |-> [marks |-> [g \in held |->
                                     [class |-> classes[g],
                                      anchor |-> [glyph |-> g, kind |-> "Mark",
                                                  group |-> classes[g]]]],
                                  bases |-> <<>>],
                     gid |-> id, group |-> group,
                     anchor |-> [glyph |-> id, kind |-> "Mark", group |-> group]]
    /\ bSt = [pc |-> "call", builder |-> bIn.builder, failed |-> FALSE]
    /\ IdleExcept("builder")

\* builder.add_mark(gid, &group_name, anchor): the call returns (), so
\* nothing it does can make its caller fail
MarkAttachmentBuilderAddMark ==
    /\ bSt.pc = "call"
    /\ bSt' = [pc |-> "done",
               builder |-> add_mark(bIn.builder, bIn.gid, bIn.group, bIn.anchor),
               failed |-> FALSE]
    /\ UNCHANGED bIn
    /\ UNCHANGED notBuilderVars

SpecBuilder == BuilderInit /\ [][MarkAttachmentBuilderAddMark]_vars

GroupGids(name) ==
    {IF m \in Range(kIn.glyph_order) THEN glyph_id(kIn.glyph_order, m) ELSE 0 :
        m \in kIn.groups[name]}

EntryRuleCount(entry) ==
    CASE entry.key[1].kind = "Group" /\ entry.key[2].kind = "Glyph" ->
            Cardinality(GroupGids(entry.key[1].name))
      [] entry.key[1].kind = "Glyph" /\ entry.key[2].kind = "Group" ->
            Cardinality(GroupGids(entry.key[2].name))
      [] OTHER -> 1

RECURSIVE EntryOffset(_)
EntryOffset(n) ==
    IF n = 1 THEN 0 ELSE EntryOffset(n - 1) + EntryRuleCount(kIn.kerns[n - 1])

EntryDeltaIdx(n) == kSt.kerning.rules[EntryOffset(n) + 1].delta_idx

\* C19: over the entries exec has processed, the delta store holds each
\* non-empty delta sequence at most once and nothing else; two entries have
\* the same delta index exactly when their delta sequences are equal; an
\* entry with no deltas has no delta index, any other the index of its own
\* deltas in the store
DeltasInternedOnce ==
    kSt.pc \in {"loop", "done"} =>
        LET processed == 1..(kSt.i - 1)
            deltas(n) == kIn.kerns[n].values.deltas
            store == kSt.kerning.deltas
        IN  /\ \A a, b \in DOMAIN store : store[a] = store[b] => a = b
            /\ Range(store) = {deltas(n) : n \in processed} \ {<<>>}
            /\ \A n \in processed :
                  IF deltas(n) = <<>>
                  THEN EntryDeltaIdx(n) = None
                  ELSE /\ EntryDeltaIdx(n) # None
                       /\ EntryDeltaIdx(n)[1] + 1 \in DOMAIN store
                       /\ store[EntryDeltaIdx(n)[1] + 1] = deltas(n)
            /\ \A m, n \in processed :
                  EntryDeltaIdx(m) = EntryDeltaIdx(n) <=> deltas(m) = deltas(n)

\* two entries with the same deltas share the one stored sequence
DeltasInternedOnceWitness ==
    /\ kSt.pc = "done"
    /\ Len(kIn.kerns) = 2
    /\ kIn.kerns[1].values.deltas = <<-60>>
    /\ kIn.kerns[2].values.deltas = <<-60>>
    /\ kIn.kerns[1].key[2].kind = "Group"
    /\ kSt.kerning.deltas = << <<-60>> >>
    /\ EntryDeltaIdx(1) = Some(0)
    /\ EntryDeltaIdx(2) = Some(0)

\* two entries with different deltas have two stored sequences and two
\* indices
DistinctDeltasWitness ==
    /\ kSt.pc = "done"
    /\ Len(kIn.kerns) = 2
    /\ Len(kSt.kerning.deltas) = 2
    /\ EntryDeltaIdx(1) # EntryDeltaIdx(2)

(***************************************************************************)
(* glyphs-reader/src/font.rs: RawFont::v2_to_v3_metrics                    *)
(***************************************************************************)
\* at most this many masters, and this many alignment zones in the font
MaxMetricsMasters == 2
MaxZones == 3

V3_METRIC_NAMES ==
    <<"ascender", "baseline", "descender", "cap height", "x-height", "italic angle">>

\* parse_alignment_zone: both parts parse as i32, or nothing
parse_alignment_zone(zone) ==
    IF zone[1] = None \/ zone[2] = None THEN None
    ELSE Some(<<zone[1][1], zone[2][1]>>)

\* the alignment zones left aside
IgnoreAlignmentZones(metric_values, non_metric, alignment_zones) ==
    [metric_values |-> metric_values, non_metric |-> non_metric]

\* `for alignment_zone in &master.alignment_zones`
RECURSIVE ApplyAlignmentZones(_, _, _)
ApplyAlignmentZones(metric_values, non_metric, alignment_zones) ==
    IF alignment_zones = <<>>
    THEN [metric_values |-> metric_values, non_metric |-> non_metric]
    ELSE LET parsed == parse_alignment_zone(Head(alignment_zones))
             rest == Tail(alignment_zones)
             pos == parsed[1][1]
             over == parsed[1][2]
             found == {n \in DOMAIN metric_values : metric_values[n].pos = Some(pos)}
             first == CHOOSE n \in found : \A o \in found : n <= o
         IN  IF parsed = None THEN ApplyAlignmentZones(metric_values, non_metric, rest)
             ELSE IF over = 0 THEN ApplyAlignmentZones(metric_values, non_metric, rest)
             ELSE IF pos = 0
             THEN ApplyAlignmentZones([metric_values EXCEPT ![2].over = Some(over)],
                                      non_metric, rest)
             ELSE IF found # {}
             THEN ApplyAlignmentZones([metric_values EXCEPT ![first].over = Some(over)],
                                      non_metric, rest)
             ELSE ApplyAlignmentZones(metric_values, Append(non_metric, <<pos, over>>),
                                      rest)

\* the positions given a new metric, in the order of their indices: first
\* seen over the masters in order and each master's zones in order
RECURSIVE new_metrics(_, _, _, _)
new_metrics(seen, non_metric_alignment_zones, i, j) ==
    IF i > Len(non_metric_alignment_zones) THEN seen
    ELSE IF j > Len(non_metric_alignment_zones[i])
    THEN new_metrics(seen, non_metric_alignment_zones, i + 1, 1)
    ELSE LET pos == non_metric_alignment_zones[i][j][1]
         IN  new_metrics(IF pos \in Range(seen) THEN seen ELSE Append(seen, pos),
                         non_metric_alignment_zones, i, j + 1)

v2_to_v3_metrics(font_master) ==
    LET filtered(pos) == IF pos # None /\ pos[1] # 0 THEN pos ELSE None
        values(master) ==
            [n \in 1..6 |->
                [pos |-> filtered(<<master.ascender, master.baseline, master.descender,
                                    master.cap_height, master.x_height,
                                    master.italic_angle>>[n]),
                 over |-> None]]
        applied == [i \in DOMAIN font_master |->
                       ApplyAlignmentZones(values(font_master[i]), <<>>,
                                           font_master[i].alignment_zones)]
        non_metric_alignment_zones == [i \in DOMAIN font_master |-> applied[i].non_metric]
        new == new_metrics(<<>>, non_metric_alignment_zones, 1, 1)
        find_map(metrics, pos_to_add) ==
            LET at == {n \in DOMAIN metrics : metrics[n][1] = pos_to_add}
                first == CHOOSE n \in at : \A o \in at : n <= o
            IN  IF at = {} THEN [pos |-> None, over |-> None]
                ELSE [pos |-> Some(metrics[first][1]), over |-> Some(metrics[first][2])]
    IN  [metrics |->
            [n \in 1..6 |-> [type_ |-> Some(V3_METRIC_NAMES[n])]]
            \o [n \in 1..Len(new) |-> [type_ |-> Some("zone " \o ToString(n))]],
         font_master |->
            [i \in DOMAIN font_master |->
                [metric_values |->
                    applied[i].metric_values
                    \o [n \in 1..Len(new) |->
                           find_map(non_metric_alignment_zones[i], new[n])]]]]

\* the lists of n version-2 masters that hold up to `zones` alignment zones.
\* The metric fields are those of a usual master, or of one with an
\* ascender of 0 and the cap height on the x-height at 1000; an alignment
\* zone string `{one, two}` is held by the integer each part reads as, None
\* for text that is no integer
RECURSIVE MetricsMasters(_, _)
MetricsMasters(n, zones) ==
    LET MetricFields ==
            {[ascender |-> Some(800), baseline |-> None, descender |-> Some(-200),
              cap_height |-> Some(700), x_height |-> Some(500), italic_angle |-> None,
              alignment_zones |-> <<>>],
             [ascender |-> Some(0), baseline |-> None, descender |-> Some(-200),
              cap_height |-> Some(1000), x_height |-> Some(1000),
              italic_angle |-> Some(12), alignment_zones |-> <<>>]}
        ZonePool ==
            {<<Some(800), Some(17)>>, <<Some(0), Some(-16)>>, <<Some(1000), Some(20)>>,
             <<Some(1000), Some(30)>>, <<Some(-100), Some(-15)>>,
             <<Some(800), Some(0)>>, <<None, Some(10)>>}
    IN  IF n = 0 THEN {<<>>}
        ELSE UNION {LET rest == MetricsMasters(n - 1, zones - k)
                    IN  {<<[fields EXCEPT !.alignment_zones = alignment_zones]>> \o r :
                            fields \in MetricFields,
                            alignment_zones \in [1..k -> ZonePool],
                            r \in rest} :
                    k \in 0..zones}

MetricsInit ==
    /\ \E n \in 1..MaxMetricsMasters :
          zIn \in [font_master : MetricsMasters(n, MaxZones)]
    /\ zSt = [pc |-> "read", metrics |-> <<>>, font_master |-> <<>>]
    /\ IdleExcept("raw_font")

\* v2_to_v3 calls v2_to_v3_metrics on the version-2 font read
V2ToV3Metrics ==
    /\ zSt.pc = "read"
    /\ zSt' = [pc |-> "lifted",
               metrics |-> v2_to_v3_metrics(zIn.font_master).metrics,
               font_master |-> v2_to_v3_metrics(zIn.font_master).font_master]
    /\ UNCHANGED zIn
    /\ UNCHANGED notMetricsVars

SpecMetrics == MetricsInit /\ [][V2ToV3Metrics]_vars

\* C20: after v2_to_v3_metrics the metric list starts with the six canonical
\* metrics in their order and every master's values start with its six
\* fields in that order; a zone {pos, over} with over # 0 puts its `over` on
\* the baseline when pos = 0 and else on the metric of the master at pos
\* (the first such metric, and the last such zone is the one that stays);
\* the positions of the zones that match no metric are the metrics
\* `zone 1`, `zone 2`, ... in the order of their first appearance over
\* masters in order and zones in order; every master has one value for each
\* metric, for a synthetic metric its own first (pos, over) at that position
\* or the empty value
MetricsLiftedFromZones ==
    zSt.pc = "lifted" =>
        LET masters == zIn.font_master
            field(i) == <<masters[i].ascender, masters[i].baseline, masters[i].descender,
                          masters[i].cap_height, masters[i].x_height,
                          masters[i].italic_angle>>
            zone(i, k) == masters[i].alignment_zones[k]
            \* the zones that count: two integers, the second not 0
            zones(i) == {k \in DOMAIN masters[i].alignment_zones :
                            /\ zone(i, k)[1] # None
                            /\ zone(i, k)[2] # None
                            /\ zone(i, k)[2][1] # 0}
            pos(i, k) == zone(i, k)[1][1]
            over(i, k) == zone(i, k)[2][1]
            at(i, p) == {n \in 1..6 : field(i)[n] = Some(p)}
            \* the metric a zone goes to, 0 when there is none
            target(i, k) ==
                IF pos(i, k) = 0 THEN 2
                ELSE IF at(i, pos(i, k)) = {} THEN 0
                ELSE CHOOSE n \in at(i, pos(i, k)) : \A o \in at(i, pos(i, k)) : n <= o
            unmatched(i) == {k \in zones(i) : target(i, k) = 0}
            positions == UNION {{pos(i, k) : k \in unmatched(i)} : i \in DOMAIN masters}
            seen(p) == {a \in (DOMAIN masters) \X (1..MaxZones) :
                            a[2] \in unmatched(a[1]) /\ pos(a[1], a[2]) = p}
            before(a, b) == a[1] < b[1] \/ (a[1] = b[1] /\ a[2] < b[2])
            first_seen(p) == CHOOSE a \in seen(p) : \A b \in seen(p) : a = b \/ before(a, b)
            number(p) == 1 + Cardinality({q \in positions :
                                             before(first_seen(q), first_seen(p))})
        IN  /\ Len(zSt.metrics) = 6 + Cardinality(positions)
            /\ \A n \in 1..6 : zSt.metrics[n].type_ = Some(V3_METRIC_NAMES[n])
            /\ \A p \in positions :
                  zSt.metrics[6 + number(p)].type_ = Some("zone " \o ToString(number(p)))
            /\ Len(zSt.font_master) = Len(masters)
            /\ \A i \in DOMAIN masters :
                  LET metric_values == zSt.font_master[i].metric_values
                  IN  /\ Len(metric_values) = Len(zSt.metrics)
                      /\ \A n \in 1..6 :
                            LET onto == {k \in zones(i) : target(i, k) = n}
                                last == CHOOSE k \in onto : \A o \in onto : o <= k
                            IN  /\ metric_values[n].pos =
                                      IF field(i)[n] = Some(0) THEN None ELSE field(i)[n]
                                /\ metric_values[n].over =
                                      IF onto = {} THEN None ELSE Some(over(i, last))
                      /\ \A p \in positions :
                            LET own == {k \in unmatched(i) : pos(i, k) = p}
                                first == CHOOSE k \in own : \A o \in own : k <= o
                            IN  metric_values[6 + number(p)] =
                                   IF own = {} THEN [pos |-> None, over |-> None]
                                   ELSE [pos |-> Some(p), over |-> Some(over(i, first))]

\* a lifted font of two masters: the first has a zone on its ascender and
\* one at -100, the second one at 1000; -100 is `zone 1` and 1000 `zone 2`
MetricsLiftedFromZonesWitness ==
    /\ zSt.pc = "lifted"
    /\ Len(zIn.font_master) = 2
    /\ zIn.font_master[1].ascender = Some(800)
    /\ zIn.font_master[1].alignment_zones =
          <<<<Some(800), Some(17)>>, <<Some(-100), Some(-15)>>>>
    /\ zIn.font_master[2].alignment_zones = <<<<Some(1000), Some(20)>>>>
    /\ [n \in 1..8 |-> zSt.metrics[n].type_[1]] = V3_METRIC_NAMES \o <<"zone 1", "zone 2">>
    /\ zSt.font_master[1].metric_values[1] = [pos |-> Some(800), over |-> Some(17)]
    /\ zSt.font_master[1].metric_values[7] = [pos |-> Some(-100), over |-> Some(-15)]
    /\ zSt.font_master[1].metric_values[8] = [pos |-> None, over |-> None]
    /\ zSt.font_master[2].metric_values[7] = [pos |-> None, over |-> None]
    /\ zSt.font_master[2].metric_values[8] = [pos |-> Some(1000), over |-> Some(20)]

(***************************************************************************)
(* glyphs-reader/src/font.rs: RawFont::v2_to_v3_master_names.  Text is a   *)
(* sequence of words and spaces, as for the master names above.            *)
(***************************************************************************)
\* names.join(" ")
RECURSIVE join(_)
join(names) ==
    IF names = <<>> THEN <<>>
    ELSE IF Len(names) = 1 THEN names[1]
    ELSE names[1] \o <<Space>> \o join(Tail(names))

\* `if let Some(italic_angle) = master.italic_angle { .. names.push("Italic") }`
push_italic(names, italic_angle) ==
    IF /\ italic_angle # None
       /\ italic_angle[1] # 0
       /\ (names = <<>> \/ ~\E n \in DOMAIN names :
                               names[n] = <<"Italic">> \/ names[n] = <<"Oblique">>)
    THEN Append(names, <<"Italic">>)
    ELSE names

\* the body of `for master in self.font_master.iter_mut()`
v2_to_v3_master_name(master) ==
    IF master.name # None THEN master
    ELSE LET fields == <<master.width, master.weight, master.custom>>
             flat == SelectSeq(fields, LAMBDA x : x # None)
             names == [n \in DOMAIN
                          SelectSeq(flat, LAMBDA x : x[1] # <<>> /\ x[1] # <<"Regular">>) |->
                          SelectSeq(flat, LAMBDA x : x[1] # <<>> /\ x[1] # <<"Regular">>)[n][1]]
             with_italic == push_italic(names, master.italic_angle)
         IN  [master EXCEPT
                 !.width = None, !.weight = None, !.custom = None,
                 !.name = IF with_italic = <<>> THEN Some(<<"Regular">>)
                          ELSE Some(join(with_italic))]

\* a version-2 master as read: the name, the three name fields and the
\* italic angle
MasterNamesInit ==
    /\ zIn \in [name : {None, Some(<<"Named">>)},
                width : {None, Some(<<>>), Some(<<"Regular">>), Some(<<"Condensed">>)},
                weight : {None, Some(<<"Regular">>), Some(<<"Bold">>)},
                custom : {None, Some(<<>>), Some(<<"Display">>), Some(<<"Italic">>),
                          Some(<<"Oblique">>), Some(<<"Display", Space, "Italic">>)},
                italic_angle : {None, Some(0), Some(10)}]
    /\ zSt = [pc |-> "names", master |-> <<>>]
    /\ IdleExcept("raw_font")

\* v2_to_v3 calls v2_to_v3_master_names
V2ToV3MasterNames ==
    /\ zSt.pc = "names"
    /\ zSt' = [pc |-> "named", master |-> v2_to_v3_master_name(zIn)]
    /\ UNCHANGED zIn
    /\ UNCHANGED notMetricsVars

SpecMasterNames == MasterNamesInit /\ [][V2ToV3MasterNames]_vars

\* C21: a master without a name is named by its width, weight and custom
\* fields in that order, joined by single spaces, without the absent and
\* empty ones and those that are `Regular`; `Italic` is appended exactly
\* when the italic angle is not 0 and neither `Italic` nor `Oblique` is
\* among the words of the name; when nothing remains the name is `Regular`
MasterNamedFromFields ==
    zSt.pc = "named" /\ zIn.name = None =>
        LET kept == SelectSeq(<<zIn.width, zIn.weight, zIn.custom>>,
                              LAMBDA x : x # None /\ x # Some(<<>>)
                                            /\ x # Some(<<"Regular">>))
            parts == [n \in DOMAIN kept |-> kept[n][1]]
            words == whitespace_separated_tokens(join(parts))
            italic == /\ zIn.italic_angle \notin {None, Some(0)}
                      /\ "Italic" \notin Range(words)
                      /\ "Oblique" \notin Range(words)
            all == IF italic THEN Append(parts, <<"Italic">>) ELSE parts
        IN  zSt.master.name = IF all = <<>> THEN Some(<<"Regular">>) ELSE Some(join(all))

(***************************************************************************)
(* glyphs-reader/src/font.rs: RawFont::v2_to_v3_instances and              *)
(* lookup_class_value.  Here text is the sequence of its characters.       *)
(***************************************************************************)
\* str::to_ascii_lowercase
to_ascii_lowercase(value) ==
    LET upper == <<"A", "B", "C", "D", "E", "F", "G", "H", "I", "J", "K", "L", "M", "N", "O", "P", "Q", "R", "S", "T", "U", "V", "W", "X", "Y", "Z">>
        lower == <<"a", "b", "c", "d", "e", "f", "g", "h", "i", "j", "k", "l", "m", "n", "o", "p", "q", "r", "s", "t", "u", "v", "w", "x", "y", "z">>
    IN  [i \in DOMAIN value |->
            IF \E k \in DOMAIN upper : upper[k] = value[i]
            THEN lower[CHOOSE k \in DOMAIN upper : upper[k] = value[i]]
            ELSE value[i]]

\* the arms of the match in lookup_class_value, as they are written
ClassValues ==
    <<
      [tag |-> "wght", names |-> {<<"t", "h", "i", "n">>},
       value |-> 100],
      [tag |-> "wght", names |-> {<<"e", "x", "t", "r", "a", "l", "i", "g", "h", "t">>, <<"u", "l", "t", "r", "a", "l", "i", "g", "h", "t">>},
       value |-> 200],
      [tag |-> "wght", names |-> {<<"l", "i", "g", "h", "t">>},
       value |-> 300],
      [tag |-> "wght", names |-> {<<>>, <<"n", "o", "r", "m", "a", "l">>, <<"r", "e", "g", "u", "l", "a", "r">>},
       value |-> 400],
      [tag |-> "wght", names |-> {<<"m", "e", "d", "i", "u", "m">>},
       value |-> 500],
      [tag |-> "wght", names |-> {<<"d", "e", "m", "i", "b", "o", "l", "d">>, <<"s", "e", "m", "i", "b", "o", "l", "d">>},
       value |-> 600],
      [tag |-> "wght", names |-> {<<"b", "o", "l", "d">>},
       value |-> 700],
      [tag |-> "wght", names |-> {<<"u", "l", "t", "r", "a", "b", "o", "l", "d">>, <<"e", "x", "t", "r", "a", "b", "o", "l", "d">>},
       value |-> 800],
      [tag |-> "wght", names |-> {<<"b", "l", "a", "c", "k">>, <<"h", "e", "a", "v", "y">>},
       value |-> 900],
      [tag |-> "wdth", names |-> {<<"u", "l", "t", "r", "a", "c", "o", "n", "d", "e", "n", "s", "e", "d">>},
       value |-> 1],
      [tag |-> "wdth", names |-> {<<"e", "x", "t", "r", "a", "c", "o", "n", "d", "e", "n", "s", "e", "d">>},
       value |-> 2],
      [tag |-> "wdth", names |-> {<<"c", "o", "n", "d", "e", "n", "s", "e", "d">>},
       value |-> 3],
      [tag |-> "wdth", names |-> {<<"s", "e", "m", "i", "c", "o", "n", "d", "e", "n", "s", "e", "d">>},
       value |-> 4],
      [tag |-> "wdth", names |-> {<<>>, <<"M", "e", "d", "i", "u", "m", " ", "(", "n", "o", "r", "m", "a", "l", ")">>},
       value |-> 5],
      [tag |-> "wdth", names |-> {<<"s", "e", "m", "i", "e", "x", "p", "a", "n", "d", "e", "d">>},
       value |-> 6],
      [tag |-> "wdth", names |-> {<<"e", "x", "p", "a", "n", "d", "e", "d">>},
       value |-> 7],
      [tag |-> "wdth", names |-> {<<"e", "x", "t", "r", "a", "e", "x", "p", "a", "n", "d", "e", "d">>},
       value |-> 8],
      [tag |-> "wdth", names |-> {<<"u", "l", "t", "r", "a", "e", "x", "p", "a", "n", "d", "e", "d">>},
       value |-> 9]
    >>

lookup_class_value(axis_tag, user_class) ==
    LET value == IF user_class # <<>>
                 THEN SelectSeq(to_ascii_lowercase(user_class), LAMBDA c : c # " ")
                 ELSE <<>>
        arms == {n \in DOMAIN ClassValues :
                    ClassValues[n].tag = axis_tag /\ value \in ClassValues[n].names}
    IN  IF arms = {} THEN None
        ELSE Some(ClassValues[CHOOSE n \in arms : \A o \in arms : n <= o].value)

\* f32::from_str(value).is_ok(), for decimal numerals
f32_from_str_is_ok(value) ==
    /\ \A i \in DOMAIN value : value[i] \in {"0", "1", "2", "3", "4", "5", "6", "7", "8", "9", "."}
    /\ \E i \in DOMAIN value : value[i] # "."
    /\ Cardinality({i \in DOMAIN value : value[i] = "."}) <= 1

\* u16::to_string
RECURSIVE to_string(_)
to_string(n) ==
    LET digit == <<"0", "1", "2", "3", "4", "5", "6", "7", "8", "9">>[(n % 10) + 1]
    IN  IF n < 10 THEN <<digit>> ELSE Append(to_string(n \div 10), digit)

\* the two rounds of `for (tag, opt) in [("wght", ..), ("wdth", ..)]` for one
\* instance
v2_to_v3_instance(instance) ==
    LET class(tag, opt) ==
            IF opt = None THEN [ok |-> TRUE, opt |-> opt]
            ELSE IF f32_from_str_is_ok(opt[1]) THEN [ok |-> TRUE, opt |-> opt]
            ELSE IF lookup_class_value(tag, opt[1]) = None
            THEN [ok |-> FALSE, opt |-> opt]
            ELSE [ok |-> TRUE, opt |-> Some(to_string(lookup_class_value(tag, opt[1])[1]))]
        weight == class("wght", instance.weight_class)
        width == class("wdth", instance.width_class)
    IN  IF ~weight.ok
        THEN [result |-> "Err", error |-> "UnknownValueName",
              value |-> instance.weight_class[1]]
        ELSE IF ~width.ok
        THEN [result |-> "Err", error |-> "UnknownValueName",
              value |-> instance.width_class[1]]
        ELSE [result |-> "Ok", weight_class |-> weight.opt, width_class |-> width.opt]

\* an instance of a version-2 source: its weight class and its width class
InstancesInit ==
    /\ zIn \in [weight_class :
                   {None,
                    Some(<<>>),
                    Some(<<"B", "o", "l", "d">>),
                    Some(<<"b", "o", "l", "d">>),
                    Some(<<"B", "O", "L", "D">>),
                    Some(<<"E", "x", "t", "r", "a", " ", "B", "o", "l", "d">>),
                    Some(<<"R", "e", "g", "u", "l", "a", "r">>),
                    Some(<<"H", "e", "a", "v", "y">>),
                    Some(<<"F", "o", "o">>),
                    Some(<<"7", "0", "0">>)},
                width_class :
                   {None,
                    Some(<<>>),
                    Some(<<"C", "o", "n", "d", "e", "n", "s", "e", "d">>),
                    Some(<<"S", "e", "m", "i", " ", "C", "o", "n", "d", "e", "n", "s", "e", "d">>),
                    Some(<<"M", "e", "d", "i", "u", "m", " ", "(", "n", "o", "r", "m", "a", "l", ")">>),
                    Some(<<"m", "e", "d", "i", "u", "m">>),
                    Some(<<"B", "o", "l", "d">>),
                    Some(<<"5">>)}]
    /\ zSt = [pc |-> "instances"]
    /\ IdleExcept("raw_font")

\* v2_to_v3 calls v2_to_v3_instances
V2ToV3Instances ==
    /\ zSt.pc = "instances"
    /\ zSt' = [pc |-> "classed", instance |-> v2_to_v3_instance(zIn)]
    /\ UNCHANGED zIn
    /\ UNCHANGED notMetricsVars

SpecInstances == InstancesInit /\ [][V2ToV3Instances]_vars

\* C22: a textual weight or width class is replaced by the code of the class
\* name it matches without regard to ASCII case and spaces, for every name
\* that lookup_class_value lists, the width class `Medium (normal)` giving 5;
\* a numeric value is left as it is; a text that matches no listed name
\* makes the lift fail with the unknown-value error
ClassNamesBecomeCodes ==
    zSt.pc = "classed" =>
        LET fold(text) == SelectSeq(to_ascii_lowercase(text), LAMBDA c : c # " ")
            listed(tag, text) ==
                {n \in DOMAIN ClassValues :
                    /\ ClassValues[n].tag = tag
                    /\ \E name \in ClassValues[n].names : fold(name) = fold(text)}
            expected(tag, opt) ==
                IF opt = None \/ f32_from_str_is_ok(opt[1]) THEN opt
                ELSE Some(to_string(ClassValues[CHOOSE n \in listed(tag, opt[1]) : TRUE].value))
            unknown(tag, opt) ==
                opt # None /\ ~f32_from_str_is_ok(opt[1]) /\ listed(tag, opt[1]) = {}
        IN  IF unknown("wght", zIn.weight_class) \/ unknown("wdth", zIn.width_class)
            THEN /\ zSt.instance.result = "Err"
                 /\ zSt.instance.error = "UnknownValueName"
            ELSE /\ zSt.instance.result = "Ok"
                 /\ zSt.instance.weight_class = expected("wght", zIn.weight_class)
                 /\ zSt.instance.width_class = expected("wdth", zIn.width_class)

(***************************************************************************)
(* src/grammar/gpos.rs: one position rule parsed by gpos                   *)
(***************************************************************************)
MaxRuleTokens == 3
MaxAnchorMarks == 2

\* gpos.rs tests single, pair_1 .. pair_4: the tokens of `fea` without
\* trivia, and the parse tree expected
GposTests ==
    <<
      [fea |-> <<"PosKw", "GlyphName", "LAngle", "Number", "Number", "Number", "Number", "RAngle", "Semi">>,
       out |->
           <<[ev |-> "START", kind |-> "GposNode"],
             [ev |-> "TOKEN", kind |-> "PosKw"],
             [ev |-> "TOKEN", kind |-> "GlyphName"],
             [ev |-> "START", kind |-> "ValueRecordNode"],
             [ev |-> "TOKEN", kind |-> "LAngle"],
             [ev |-> "TOKEN", kind |-> "Number"],
             [ev |-> "TOKEN", kind |-> "Number"],
             [ev |-> "TOKEN", kind |-> "Number"],
             [ev |-> "TOKEN", kind |-> "Number"],
             [ev |-> "TOKEN", kind |-> "RAngle"],
             [ev |-> "END", kind |-> "ValueRecordNode"],
             [ev |-> "TOKEN", kind |-> "Semi"],
             [ev |-> "END", kind |-> "GposNode"]>>],
      [fea |-> <<"PosKw", "GlyphName", "GlyphName", "Number", "Semi">>,
       out |->
           <<[ev |-> "START", kind |-> "GposNode"],
             [ev |-> "TOKEN", kind |-> "PosKw"],
             [ev |-> "TOKEN", kind |-> "GlyphName"],
             [ev |-> "TOKEN", kind |-> "GlyphName"],
             [ev |-> "START", kind |-> "ValueRecordNode"],
             [ev |-> "TOKEN", kind |-> "Number"],
             [ev |-> "END", kind |-> "ValueRecordNode"],
             [ev |-> "TOKEN", kind |-> "Semi"],
             [ev |-> "END", kind |-> "GposNode"]>>],
      [fea |-> <<"PosKw", "LSquare", "GlyphName", "RSquare", "GlyphName", "Number", "Semi">>,
       out |->
           <<[ev |-> "START", kind |-> "GposNode"],
             [ev |-> "TOKEN", kind |-> "PosKw"],
             [ev |-> "START", kind |-> "GlyphClass"],
             [ev |-> "TOKEN", kind |-> "LSquare"],
             [ev |-> "TOKEN", kind |-> "GlyphName"],
             [ev |-> "TOKEN", kind |-> "RSquare"],
             [ev |-> "END", kind |-> "GlyphClass"],
             [ev |-> "TOKEN", kind |-> "GlyphName"],
             [ev |-> "START", kind |-> "ValueRecordNode"],
             [ev |-> "TOKEN", kind |-> "Number"],
             [ev |-> "END", kind |-> "ValueRecordNode"],
             [ev |-> "TOKEN", kind |-> "Semi"],
             [ev |-> "END", kind |-> "GposNode"]>>],
      [fea |-> <<"PosKw", "LSquare", "GlyphName", "RSquare", "NamedGlyphClass", "Number", "Semi">>,
       out |->
           <<[ev |-> "START", kind |-> "GposNode"],
             [ev |-> "TOKEN", kind |-> "PosKw"],
             [ev |-> "START", kind |-> "GlyphClass"],
             [ev |-> "TOKEN", kind |-> "LSquare"],
             [ev |-> "TOKEN", kind |-> "GlyphName"],
             [ev |-> "TOKEN", kind |-> "RSquare"],
             [ev |-> "END", kind |-> "GlyphClass"],
             [ev |-> "TOKEN", kind |-> "NamedGlyphClass"],
             [ev |-> "START", kind |-> "ValueRecordNode"],
             [ev |-> "TOKEN", kind |-> "Number"],
             [ev |-> "END", kind |-> "ValueRecordNode"],
             [ev |-> "TOKEN", kind |-> "Semi"],
             [ev |-> "END", kind |-> "GposNode"]>>],
      [fea |-> <<"PosKw", "NamedGlyphClass", "LSquare", "GlyphName", "GlyphName", "GlyphName", "RSquare", "Number", "Semi">>,
       out |->
           <<[ev |-> "START", kind |-> "GposNode"],
             [ev |-> "TOKEN", kind |-> "PosKw"],
             [ev |-> "TOKEN", kind |-> "NamedGlyphClass"],
             [ev |-> "START", kind |-> "GlyphClass"],
             [ev |-> "TOKEN", kind |-> "LSquare"],
             [ev |-> "TOKEN", kind |-> "GlyphName"],
             [ev |-> "TOKEN", kind |-> "GlyphName"],
             [ev |-> "TOKEN", kind |-> "GlyphName"],
             [ev |-> "TOKEN", kind |-> "RSquare"],
             [ev |-> "END", kind |-> "GlyphClass"],
             [ev |-> "START", kind |-> "ValueRecordNode"],
             [ev |-> "TOKEN", kind |-> "Number"],
             [ev |-> "END", kind |-> "ValueRecordNode"],
             [ev |-> "TOKEN", kind |-> "Semi"],
             [ev |-> "END", kind |-> "GposNode"]>>]
    >>

\* a glyph or a glyph class, and a value record, as the grammar comments
\* write them
GlyphOrClass ==
    {<<"GlyphName">>, <<"NamedGlyphClass">>, <<"LSquare", "GlyphName", "RSquare">>}

ValueRecords ==
    {<<"Number">>, <<"LAngle", "Number", "Number", "Number", "Number", "RAngle">>}

\* 6.a and 6.b: single rules, pair rules of type A and of type B
SingleRules == {<<"PosKw">> \o g \o v \o <<"Semi">> : g \in GlyphOrClass, v \in ValueRecords}

PairRules ==
    {<<"PosKw">> \o g \o v \o h \o w \o <<"Semi">> :
        g \in GlyphOrClass, v \in ValueRecords, h \in GlyphOrClass, w \in ValueRecords}
    \cup {<<"PosKw">> \o g \o h \o v \o <<"Semi">> :
             g \in GlyphOrClass, h \in GlyphOrClass, v \in ValueRecords}

\* 6.d, 6.e, 6.f: `pos base|ligature|mark <glyph|class>` and n groups
\* `<anchor> mark @class`
RECURSIVE AnchorMarkGroups(_)
AnchorMarkGroups(n) ==
    IF n = 0 THEN <<>>
    ELSE <<"LAngle", "AnchorKw", "Number", "Number", "RAngle", "MarkKw", "NamedGlyphClass">>
         \o AnchorMarkGroups(n - 1)

MarkRules ==
    {<<"PosKw", kw>> \o g \o AnchorMarkGroups(n) \o <<"Semi">> :
        kw \in {"IdentBase", "IdentLigature", "MarkKw"}, g \in GlyphOrClass,
        n \in 1..MaxAnchorMarks}

\* 6.e with a second component: `ligComponent` and its groups
LigatureRules ==
    {<<"PosKw", "IdentLigature">> \o g \o AnchorMarkGroups(n) \o <<"IdentLigComponent">>
        \o AnchorMarkGroups(m) \o <<"Semi">> :
        g \in GlyphOrClass, n \in 0..1, m \in 0..1}

\* before a rule is read
GposInit ==
    /\ pIn = <<>>
    /\ pSt = [pc |-> "read"]
    /\ IdleExcept("parser")

\* the rule read: a test, a rule of the grammar comments, or any few tokens
\* after `pos`, with and without the `;`; and the recovery set of the caller
GposRead ==
    /\ pSt.pc = "read"
    /\ pIn' \in {GposTests[n].fea : n \in DOMAIN GposTests}
               \cup SingleRules \cup PairRules \cup MarkRules \cup LigatureRules
               \cup {<<"PosKw">> \o body \o end :
                        body \in SeqsUpTo({"GlyphName", "NamedGlyphClass", "Number",
                                           "SingleQuote", "LAngle", "AnchorKw", "MarkKw",
                                           "IdentLigature", "IdentLigComponent"},
                                          MaxRuleTokens),
                        end \in {<<"Semi">>, <<>>}}
    /\ \E recovery \in {FEATURE_BODY_ITEM, {"Eof"}} :
          pSt' = [pc |-> "rule", pos |-> 1, errs |-> <<>>, open |-> <<>>, tree |-> <<>>,
                  panic |-> FALSE, hang |-> FALSE, recovery |-> recovery]
    /\ UNCHANGED notParserVars

\* the call gpos(parser, recovery), by what it does to the parser
GposRule ==
    /\ pSt.pc = "rule"
    /\ pSt' = [gpos(pSt, pSt.recovery) EXCEPT !.pc = "in gpos"]
    /\ UNCHANGED pIn
    /\ UNCHANGED notParserVars

\* gpos returns, unless it has panicked or is in a loop that it never leaves
GposReturn ==
    /\ pSt.pc = "in gpos"
    /\ Live(pSt)
    /\ pSt' = [pSt EXCEPT !.pc = "returned"]
    /\ UNCHANGED pIn
    /\ UNCHANGED notParserVars

SpecGpos == GposInit /\ [][GposRead \/ GposRule \/ GposReturn]_vars

\* a call that can return does
SpecGposLive == SpecGpos /\ WF_vars(GposReturn)

\* the kinds of the tokens of a tree, in order
TokensOf(tree) ==
    LET tokens == SelectSeq(tree, LAMBDA e : e.ev = "TOKEN")
    IN  [n \in DOMAIN tokens |-> tokens[n].kind]

\* the rule is one GposNode around all tokens of the input, parsed with no
\* error; `base` and `ligature` count as the keywords they are remapped to
ParsedAsOneRule ==
    /\ Live(pSt)
    /\ pSt.errs = <<>>
    /\ pSt.pos = Len(pIn) + 1
    /\ pSt.open = <<>>
    /\ TokensOf(pSt.tree) =
          [n \in DOMAIN pIn |-> CASE pIn[n] = "IdentBase" -> "BaseKw"
                                  [] pIn[n] = "IdentLigature" -> "LigatureKw"
                                  [] OTHER -> pIn[n]]
    /\ pSt.tree[1] = [ev |-> "START", kind |-> "GposNode"]
    /\ pSt.tree[Len(pSt.tree)] = [ev |-> "END", kind |-> "GposNode"]
    /\ Cardinality({n \in DOMAIN pSt.tree : pSt.tree[n].kind = "GposNode"}) = 2

\* C23: a well-formed mark attachment rule after `pos base`, `pos mark` or
\* `pos ligature` is parsed with no diagnostic, ends at its `;`, and each
\* group `<anchor> mark @class` is one AnchorMarkNode that holds the anchor,
\* `mark` and the mark class
MarkRulesParseClean ==
    pSt.pc \in {"in gpos", "returned"} /\ pIn \in MarkRules =>
        LET starts == {n \in DOMAIN pSt.tree :
                          pSt.tree[n] = [ev |-> "START", kind |-> "AnchorMarkNode"]}
            end(n) == CHOOSE m \in n..Len(pSt.tree) :
                         /\ pSt.tree[m] = [ev |-> "END", kind |-> "AnchorMarkNode"]
                         /\ \A o \in n..(m - 1) :
                               pSt.tree[o] # [ev |-> "END", kind |-> "AnchorMarkNode"]
        IN  /\ ParsedAsOneRule
            /\ Cardinality(starts) =
                  Cardinality({n \in DOMAIN pIn : pIn[n] = "NamedGlyphClass"
                                                     /\ pIn[n - 1] = "MarkKw"})
            /\ \A n \in starts :
                  /\ pSt.tree[n + 1] = [ev |-> "START", kind |-> "AnchorNode"]
                  /\ TokensOf(SubSeq(pSt.tree, n, end(n))) = AnchorMarkGroups(1)

GposLigatureReturns == (pSt.pc = "in gpos") ~> (pSt.pc = "returned")

\* ---------------------------------------------------------------------------
\* The two work items of fontbe, MarkWork and KerningWork, each run once
\* ---------------------------------------------------------------------------

\* the item that runs is either of the two
WorkInit == MarksInit \/ KernInit

\* the steps of exec of the item that runs
WorkNext ==
    \/ mPc # Idle /\ MarkLookupBuilderNew
    \/ mPc # Idle /\ MarkLookupBuilderBuild
    \/ mPc = Idle /\ KernExecStart
    \/ mPc = Idle /\ KernExecEntry
    \/ mPc = Idle /\ KernExecSet

SpecWork == WorkInit /\ [][WorkNext]_vars

\* C25: MarkWork::exec and KerningWork::exec write only their own slot
\* (fea_rs_marks, kerning): once, with the output, when exec returns Ok, and
\* not at all when it returns Err or before it returns
WorkWritesOwnSlotOnce ==
    /\ [](IF mPc = Idle
          THEN /\ kSt.pc = "done" => Len(kOut) = 1 /\ kOut[1] = kSt.kerning
               /\ kSt.pc # "done" => kOut = <<>>
               /\ mMarkBase = <<>> /\ mMarkMark = <<>>
          ELSE /\ mPc # "done" => mMarkBase = <<>> /\ mMarkMark = <<>>
               /\ kOut = Idle)
    /\ [][/\ UNCHANGED <<nResult, pSt, dSt, aSt, uSt, fSt, bSt, zSt>>
          /\ <<mMarkBase, mMarkMark>>' # <<mMarkBase, mMarkMark>> =>
                mPc = "build" /\ mPc' = "done"
          /\ mPc = "build" /\ mPc' = "done" =>
                /\ mMarkBase' = make_lookups(make_mark_to_base_groups(
                                     mAnchorLists, mMarkGlyphs, mClasses),
                                     mOrder, mSolveFails).lookups
                /\ mMarkMark' = make_lookups(make_mark_to_mark_groups(
                                     mAnchorLists, mMarkGlyphs), mOrder, mSolveFails).lookups
          /\ mPc \in {"done", "err"} => UNCHANGED vars
          /\ mPc = Idle =>
                /\ kOut' # kOut => kSt.pc = "loop" /\ kSt'.pc = "done"
                /\ kSt.pc \in {"done", "err"} => UNCHANGED vars]_vars

\* both items have been seen to publish and to fail: here KerningWork has
\* failed at its second entry, with rules of the first already in its Kerning
WorkWritesOwnSlotOnceWitness ==
    /\ mPc = Idle
    /\ kSt.pc = "err"
    /\ kSt.i > 1
    /\ kSt.kerning # KerningDefault
    /\ kOut = <<>>

\* MarkWork has published lookups
MarkWorkPublished == mPc = "done" /\ mMarkBase # <<>>

\* ---------------------------------------------------------------------------
\* MarkLookupBuilder on the same anchors listed in another order
\* ---------------------------------------------------------------------------

\* MarkLookupBuilder::new(anchors, ..) followed by build()
NewAndBuild(anchors, glyph_order, gdef_classes, solve_fails) ==
    LET anchor_lists == new_anchor_lists(anchors, glyph_order, gdef_classes)
        mark_glyphs == find_mark_glyphs(anchor_lists, gdef_classes)
        mark_base == make_lookups(
                         make_mark_to_base_groups(anchor_lists, mark_glyphs, gdef_classes),
                         glyph_order, solve_fails)
        mark_mark == make_lookups(make_mark_to_mark_groups(anchor_lists, mark_glyphs),
                                  glyph_order, solve_fails)
    IN  IF mark_base.ok /\ mark_mark.ok
        THEN [ok |-> TRUE, mark_base |-> mark_base.lookups, mark_mark |-> mark_mark.lookups]
        ELSE [ok |-> FALSE, mark_base |-> <<>>, mark_mark |-> <<>>]

\* the position of a name in the order of names
NameRank(names, n) == CHOOSE i \in DOMAIN names : names[i] = n

\* the names of a list come in strictly ascending order
Ascending(names, list) ==
    \A i, j \in DOMAIN list : i < j => NameRank(names, list[i]) < NameRank(names, list[j])

\* the (glyph, anchor) entries of a group come in glyph-name order, the
\* anchors of one glyph together
InGlyphNameOrder(entries) ==
    \A i, j \in DOMAIN entries :
        i < j => NameRank(GlyphNames, entries[i][1]) <= NameRank(GlyphNames, entries[j][1])

\* C26: the lookups built are the same for every permutation of the list of
\* per-glyph anchors; they come in ascending order of group name, and the
\* marks and bases of every group are inserted in glyph-name order
MarkLookupsOrderIndependent ==
    mPc \in {"done", "err"} =>
        /\ \A p \in Permutations(DOMAIN mAnchors) :
              LET r == NewAndBuild([i \in DOMAIN mAnchors |-> mAnchors[p[i]]],
                                   mOrder, mClasses, mSolveFails)
              IN  /\ r.ok = (mPc = "done")
                  /\ r.mark_base = mMarkBase
                  /\ r.mark_mark = mMarkMark
        /\ Ascending(GroupNames, [i \in DOMAIN mMarkBase |-> mMarkBase[i].group])
        /\ Ascending(GroupNames, [i \in DOMAIN mMarkMark |-> mMarkMark[i].group])
        /\ LET mark_base_groups ==
                   make_mark_to_base_groups(mAnchorLists, mMarkGlyphs, mClasses)
               mark_mark_groups == make_mark_to_mark_groups(mAnchorLists, mMarkGlyphs)
           IN  /\ \A g \in DOMAIN mark_base_groups :
                     /\ InGlyphNameOrder(mark_base_groups[g].marks)
                     /\ InGlyphNameOrder(mark_base_groups[g].bases)
               /\ \A g \in DOMAIN mark_mark_groups :
                     /\ InGlyphNameOrder(mark_mark_groups[g].marks)
                     /\ InGlyphNameOrder(mark_mark_groups[g].bases)

\* both groups give a mark-to-base lookup, and one of them holds two marks
MarkLookupsOrderIndependentWitness ==
    /\ mPc = "done"
    /\ Len(mMarkBase) = 2
    /\ \E i \in DOMAIN mMarkBase :
          Cardinality(DOMAIN mMarkBase[i].subtables[1].marks) = 2
    /\ mMarkMark # <<>>

\* ---------------------------------------------------------------------------
\* glyphs-reader: parse_glyph_order
\* ---------------------------------------------------------------------------

MaxGlyphs == 3
MaxGlyphOrder == 3

\* the result when the glyphOrder parameter is not looked at
file_order(raw_font) == raw_font.glyphs

\* names.iter().for_each(|name| if valid_names.remove(name) { glyph_order.push(name) })
RECURSIVE AddValidEntries(_, _, _, _)
AddValidEntries(names, i, valid_names, glyph_order) ==
    IF i > Len(names) THEN [valid_names |-> valid_names, glyph_order |-> glyph_order]
    ELSE IF names[i] \in valid_names
    THEN AddValidEntries(names, i + 1, valid_names \ {names[i]},
                         Append(glyph_order, names[i]))
    ELSE AddValidEntries(names, i + 1, valid_names, glyph_order)

\* parse_glyph_order(raw_font); glyphs holds the glyphname of every glyph
parse_glyph_order(raw_font) ==
    LET valid_names == Range(raw_font.glyphs)
        listed == IF raw_font.glyph_order # None
                  THEN AddValidEntries(raw_font.glyph_order[1], 1, valid_names, <<>>)
                  ELSE [valid_names |-> valid_names, glyph_order |-> <<>>]
    IN  listed.glyph_order
            \o SelectSeq(raw_font.glyphs, LAMBDA g : g \in listed.valid_names)

\* a RawFont: the glyphs of the file, by name, and the glyphOrder parameter
GlyphOrderInit ==
    /\ zIn \in [glyphs : SeqsUpTo({"a", "b", "c"}, MaxGlyphs),
                glyph_order : {None} \cup
                    {Some(names) : names \in SeqsUpTo({"a", "b", "c", "x"}, MaxGlyphOrder)}]
    /\ zSt = [pc |-> "glyph_order"]
    /\ IdleExcept("raw_font")

\* let glyph_order = parse_glyph_order(&from)
ParseGlyphOrder ==
    /\ zSt.pc = "glyph_order"
    /\ zSt' = [pc |-> "ordered", glyph_order |-> parse_glyph_order(zIn)]
    /\ UNCHANGED zIn
    /\ UNCHANGED notMetricsVars

SpecGlyphOrder == GlyphOrderInit /\ [][ParseGlyphOrder]_vars

\* how often a name occurs in a list
TimesIn(list, name) == Cardinality({i \in DOMAIN list : list[i] = name})

\* the entries of glyphOrder that name glyphs of the font, each at its first
\* occurrence, followed by the glyphs of the file that glyphOrder does not name
ListedThenFileOrder(names_per_glyph(_, _)) ==
    LET names == IF zIn.glyph_order = None THEN <<>> ELSE zIn.glyph_order[1]
        out == zSt.glyph_order
        glyphs == Range(zIn.glyphs)
        first == {i \in DOMAIN names :
                     /\ names[i] \in glyphs
                     /\ \A j \in 1..(i - 1) : names[j] # names[i]}
        n == Cardinality(first)
    IN  /\ n <= Len(out)
        /\ \A k \in 1..n : \E i \in first :
              /\ out[k] = names[i]
              /\ Cardinality({j \in first : j < i}) = k - 1
        /\ SubSeq(out, n + 1, Len(out)) =
              SelectSeq(zIn.glyphs, LAMBDA g : g \notin Range(names))
        /\ Range(out) = glyphs
        /\ \A g \in glyphs : names_per_glyph(out, g)
        /\ zIn.glyph_order = None => out = zIn.glyphs

\* C27, as the code has it: a name that glyphOrder lists appears once, and a
\* name it does not list appears once for every glyph of the file that bears
\* it, which is once when the names of the file are distinct
GlyphOrderListsEveryGlyph ==
    zSt.pc = "ordered" =>
        ListedThenFileOrder(LAMBDA out, g :
            LET names == IF zIn.glyph_order = None THEN <<>> ELSE zIn.glyph_order[1]
            IN  TimesIn(out, g) = IF g \in Range(names) THEN 1 ELSE TimesIn(zIn.glyphs, g))

\* glyphOrder repeats a name and holds a name that is no glyph, and a glyph
\* is left over
GlyphOrderListsEveryGlyphWitness ==
    /\ zSt.pc = "ordered"
    /\ zIn.glyphs = <<"a", "b">>
    /\ zIn.glyph_order = Some(<<"b", "x", "b">>)
    /\ zSt.glyph_order = <<"b", "a">>

\* C27: the valid entries of glyphOrder in listed order, first occurrences
\* only, then the remaining glyphs in file order; every glyph name of the
\* font appears exactly once
GlyphOrderListsEveryGlyphOnce ==
    zSt.pc = "ordered" => ListedThenFileOrder(LAMBDA out, g : TimesIn(out, g) = 1)

\* ---------------------------------------------------------------------------
\* glyphs-reader: RawAxisUserToDesignMap under add_if_new and add_any_new
\* ---------------------------------------------------------------------------

MaxCalls == 3
MaxIncoming == 2
AxisValues == {0, 1, 2}

\* add_any_new(incoming): add_if_new for every pair of incoming, in order
RECURSIVE add_any_new(_, _)
add_any_new(map, incoming) ==
    IF incoming = <<>> THEN map
    ELSE add_any_new(add_if_new(map, Head(incoming)[1], Head(incoming)[2]), Tail(incoming))

\* RawAxisUserToDesignMap::default()
AxisMapInit ==
    /\ uIn = <<>>
    /\ uSt = [pc |-> "calls", map |-> <<>>, call |-> None, calls |-> 0]
    /\ IdleExcept("mapping")

\* map.add_if_new(user, design)
AddIfNew ==
    /\ uSt.pc = "calls"
    /\ uSt.calls < MaxCalls
    /\ \E user \in AxisValues, design \in AxisValues :
          LET call == [op |-> "add_if_new", user |-> user, design |-> design]
          IN  uSt' = [uSt EXCEPT !.map = add_if_new(uSt.map, user, design),
                                !.call = Some(call), !.calls = @ + 1]
    /\ UNCHANGED uIn
    /\ UNCHANGED notMappingVars

\* map.add_any_new(&incoming)
AddAnyNew ==
    /\ uSt.pc = "calls"
    /\ uSt.calls < MaxCalls
    /\ \E incoming \in SeqsUpTo(AxisValues \X AxisValues, MaxIncoming) :
          LET call == [op |-> "add_any_new", incoming |-> incoming]
          IN  uSt' = [uSt EXCEPT !.map = add_any_new(uSt.map, incoming),
                                !.call = Some(call), !.calls = @ + 1]
    /\ UNCHANGED uIn
    /\ UNCHANGED notMappingVars

SpecAxisMap == AxisMapInit /\ [][AddIfNew \/ AddAnyNew]_vars

\* a pair of the map holds the user or the design value
Present(map, user, design) ==
    \E k \in DOMAIN map : map[k][1] = user \/ map[k][2] = design

\* C30: no two stored pairs share a user value or a design value; a call
\* whose user or design value is present leaves the map as it is, any other
\* add_if_new appends its pair; stored pairs keep their value and their place
AxisMapPairsUnique ==
    /\ [](\A i, j \in DOMAIN uSt.map :
             i # j => uSt.map[i][1] # uSt.map[j][1] /\ uSt.map[i][2] # uSt.map[j][2])
    /\ [][LET call == uSt'.call[1]
              old == uSt.map
              new == uSt'.map
              pairs == IF call.op = "add_if_new" THEN <<<<call.user, call.design>>>>
                       ELSE call.incoming
          IN  /\ Len(old) <= Len(new)
              /\ SubSeq(new, 1, Len(old)) = old
              /\ \A k \in (Len(old) + 1)..Len(new) :
                    /\ new[k] \in Range(pairs)
                    /\ ~Present(old, new[k][1], new[k][2])
              /\ (\A k \in DOMAIN pairs : Present(old, pairs[k][1], pairs[k][2]))
                     => new = old
              /\ call.op = "add_if_new" /\ ~Present(old, call.user, call.design)
                     => new = Append(old, <<call.user, call.design>>)]_vars

\* add_any_new has added one pair of two: the other shared the design value
\* of a pair stored by an earlier add_if_new
AxisMapPairsUniqueWitness ==
    /\ uSt.pc = "calls"
    /\ uSt.calls = 2
    /\ uSt.call = Some([op |-> "add_any_new", incoming |-> <<<<1, 0>>, <<2, 2>>>>])
    /\ uSt.map = <<<<0, 0>>, <<2, 2>>>>

\* ---------------------------------------------------------------------------
\* grammar::feature: the blocks cvParameters { .. } and featureNames { .. }
\* ---------------------------------------------------------------------------

MaxBlockTokens == 3

\* metrics::expect_name_record: up to three numbers and a string
expect_name_record(p, recovery) ==
    LET a == start_node(p, "NameSpecNode")
        b == eat(a, {"Number"})
        c == IF b.pos # a.pos THEN eat(b, {"Number"}) ELSE b
        e == IF c.pos # b.pos THEN expect_recover(c, {"Number"}, recovery \cup {"String"})
             ELSE c
    IN  finish_node(expect_recover(e, {"String"}, recovery))

name_entry(p, recovery) ==
    LET a == IF matches(p, 0, {"NameKw"})
             THEN expect_name_record(expect(p, {"NameKw"}), recovery)
             ELSE eat_until(expect(p, {"NameKw"}), recovery)
    IN  expect_recover(a, {"Semi"}, recovery)

\* while !parser.at_eof() && !parser.matches(0, stop) { name_entry(parser, recovery) };
\* an iteration that leaves the parser where it was is repeated for ever
RECURSIVE name_entries(_, _, _)
name_entries(p, stop, recovery) ==
    IF ~Live(p) \/ nth(p, 0) = "Eof" \/ matches(p, 0, stop) THEN p
    ELSE LET q == name_entry(p, recovery)
         IN  IF q.pos = p.pos THEN [q EXCEPT !.hang = TRUE]
             ELSE name_entries(q, stop, recovery)

feature_names(p, recovery) ==
    LET name_recovery == recovery \cup {"NameKw", "RBrace", "Semi"}
        a == start_node(p, "FeatureNamesKw")
        b == assert_eat(a, {"FeatureNamesKw"})
        c == expect_recover(b, {"LBrace"}, name_recovery)
        e == name_entries(c, recovery \cup {"RBrace"}, name_recovery)
        f == expect_recover(e, {"RBrace"}, name_recovery)
    IN  finish_node(expect_recover(f, {"Semi"}, name_recovery))

UNICODE_VALUE == {"Number", "Hex"}

PARAM_KEYWORDS ==
    {"FeatUiLabelNameIdKw", "FeatUiTooltipTextNameIdKw", "SampleTextNameIdKw",
     "ParamUiLabelNameIdKw", "CharacterKw"}

\* fn entry of cv_parameters: a token that is neither `Character` nor a
\* parameter keyword meets no branch
entry(p, recovery) ==
    IF matches(p, 0, {"CharacterKw"})
    THEN expect_recover(expect_recover(eat(p, {"CharacterKw"}), UNICODE_VALUE, recovery),
                        {"Semi"}, recovery)
    ELSE IF matches(p, 0, PARAM_KEYWORDS)
    THEN LET a == start_node(p, nth(p, 0))
             b == assert_eat(a, PARAM_KEYWORDS)
             c == expect_recover(b, {"LBrace"}, recovery \cup {"NameKw"})
             e == name_entries(c, recovery, recovery \cup {"NameKw"})
             f == expect_recover(e, {"RBrace"}, recovery)
         IN  finish_node(expect_recover(f, {"Semi"}, recovery))
    ELSE p

\* while !parser.at_eof() && !parser.matches(0, stop) { entry(parser, recovery) }
RECURSIVE entries(_, _, _)
entries(p, stop, recovery) ==
    IF ~Live(p) \/ nth(p, 0) = "Eof" \/ matches(p, 0, stop) THEN p
    ELSE LET q == entry(p, recovery)
         IN  IF q.pos = p.pos THEN [q EXCEPT !.hang = TRUE]
             ELSE entries(q, stop, recovery)

cv_parameters(p, recovery) ==
    LET entry_recovery == recovery \cup PARAM_KEYWORDS \cup {"RBrace", "Semi"}
        a == start_node(p, "CvParametersKw")
        b == assert_eat(a, {"CvParametersKw"})
        c == expect_recover(b, {"LBrace"}, entry_recovery)
        e == entries(c, recovery \cup {"RBrace"}, entry_recovery)
        f == expect_recover(e, {"RBrace"}, entry_recovery)
    IN  finish_node(expect_recover(f, {"Semi"}, entry_recovery))

\* the tokens that follow the keyword of a block
BlockTokens ==
    {"LBrace", "RBrace", "Semi", "NameKw", "CharacterKw", "FeatUiLabelNameIdKw",
     "Number", "String", "Ident", "PosKw"}

\* a parser before the keyword of a block
BlockInit ==
    /\ pIn = <<>>
    /\ pSt = [pc |-> "read"]
    /\ IdleExcept("parser")

\* the source read: the keyword and the tokens after it
BlockRead ==
    /\ pSt.pc = "read"
    /\ \E k \in {"CvParametersKw", "FeatureNamesKw"},
          rest \in SeqsUpTo(BlockTokens, MaxBlockTokens) :
          pIn' = <<k>> \o rest
    /\ pSt' = [pc |-> "block", pos |-> 1, errs |-> <<>>, open |-> <<>>, tree |-> <<>>,
               panic |-> FALSE, hang |-> FALSE]
    /\ UNCHANGED notParserVars

\* Kind::CvParametersKw => cv_parameters(parser, TokenSet::FEATURE_BODY_ITEM),
\* Kind::FeatureNamesKw => feature_names(parser, TokenSet::FEATURE_BODY_ITEM)
BlockCall ==
    /\ pSt.pc = "block"
    /\ pSt' = [(IF nth(pSt, 0) = "CvParametersKw"
                THEN cv_parameters(pSt, FEATURE_BODY_ITEM)
                ELSE feature_names(pSt, FEATURE_BODY_ITEM))
               EXCEPT !.pc = "in block"]
    /\ UNCHANGED pIn
    /\ UNCHANGED notParserVars

\* the block's function returns, unless it is in a loop that it never leaves
BlockReturn ==
    /\ pSt.pc = "in block"
    /\ Live(pSt)
    /\ pSt' = [pSt EXCEPT !.pc = "returned"]
    /\ UNCHANGED pIn
    /\ UNCHANGED notParserVars

SpecBlocks == BlockInit /\ [][BlockRead \/ BlockCall \/ BlockReturn]_vars

\* a call that can return does
SpecBlocksLive == SpecBlocks /\ WF_vars(BlockReturn)

\* C29: cv_parameters and feature_names return on every token stream, with
\* the block's node finished
BlocksReturn ==
    (pSt.pc = "in block") ~> (pSt.pc = "returned" /\ pSt.open = <<>>)

\* featureNames alone: every call returns with its node finished, and with
\* a diagnostic unless the block is whole
FeatureNamesReturns ==
    pSt.pc = "in block" /\ pIn[1] = "FeatureNamesKw" =>
        /\ Live(pSt)
        /\ pSt.open = <<>>
        /\ pSt.pos > 1
        /\ pSt.errs = <<>> => pIn[pSt.pos - 1] = "Semi"

====
